---- MODULE Spec2Model ----
(***************************************************************************)
(* Model of the Bluetti discovery core: the adaptive register scanner      *)
(* (src/src/discovery/scanner.ts) and the single-flight BLE client         *)
(* (src/src/bluetooth/client.ts) talking to a device over GATT.            *)
(***************************************************************************)
EXTENDS Integers, Sequences, FiniteSets, TLC

\* ------------------------------------------------------------------------
\* Bounds and program constants
\* ------------------------------------------------------------------------
MAX_REGISTERS_PER_REQUEST == 7
MAX_PACKET_SIZE == 20
MaxAddr == 8
MaxCalls == 2

Addrs == 0 .. (MaxAddr - 1)
Devices == {"d1", "d2"}
NullValue == << -1 >>

VARIABLES
  \* ---- register scanner and result store ----
  scanDevice,        \* RegisterScanner.device.id ("none" before construction)
  scanRanges,        \* the scanRanges argument of the constructor
  totalRegisters,    \* RegisterScanner.totalRegisters
  remainingRanges,   \* RegisterScanner.remainingRanges (top of stack = last)
  scannedRegisters,  \* RegisterScanner.scannedRegisters
  scanPc,            \* "none" | "ready" | "running" | "finished"
  signalAborted,     \* the AbortSignal handed to run()/step()
  progress,          \* last ProgressEvent <<scanned, total>> (<<>> = none yet)
  store,             \* db.scanResults: [device -> [register -> record]]
  now,               \* the clock read by new Date()
  priorStore,        \* history: db.scanResults as earlier sessions left it
  lastStep,          \* history: what the last step() call did
  readableRanges,    \* the mock device's readable ranges (tests' createMockDevice)
  reads,             \* history: number of device.readRegisters calls made
  \* ---- BLE client (BluetoothClient), link and device ----
  keyBundle,             \* whether a key bundle was given to the constructor
  devEncrypted,          \* whether the device opens a handshake on subscription
  connected,             \* device.gatt.connected
  writeCharacteristic,   \* this.writeCharacteristic != null
  notifyCharacteristic,  \* this.notifyCharacteristic != null (listener added)
  responsePromise,       \* the slot: 0 = null, c = command promise of call c,
                         \*           -c = detection promise of call c
  handshakeProtocol,     \* this.handshakeProtocol: 0 = null, c = the object
                         \* created by call c
  hpState,               \* state of the HandshakeProtocol object of each call
  devHandshake,          \* the device's handshake: idle | sent1 | sent4 | done
  net,                   \* notifications in flight, oldest first
  call,                  \* per call: kind, position, signal, outcome
  detected,              \* history: a detection wait on this connection was
                         \* resolved by a notification
  timedOut,              \* history: a request on this connection timed out
                         \* while waiting for its notification
  last,                  \* history: the call that returned in the last step,
                         \* as it was (NoCall if none did)
  \* ---- RegisterScanner.calculatePendingRanges (static, pure) ----
  pendingArgs,           \* [startRegister, endRegister, scannedRegisters]
  pendingRanges,         \* the array it returned
  pendingPc,             \* "none" | "ready" | "done"
  \* ---- a write followed by a read on the mock device ----
  registers,             \* RegisterMemory.registers of the device
  rtArgs,                \* [a, data]: writeRegisters(a, data), then
                         \* readRegisters(a, data.length / 2)
  rtPc,                  \* "none" | "ready" | "written" | "read" | "failed"
  rtResult,              \* what readRegisters returned, or the error thrown
  \* ---- two HandshakeProtocol objects driven against each other ----
  hsBundles,             \* the key bundles of the client and of the server
  hsProto,               \* the fields of clientProtocol and serverProtocol
  hsWire,                \* what the last handle() returned and who gets it
  hsTrace,               \* history: per handle() call, who handled which
                         \* state and which state the reply carries (0: null)
  hsSent,                \* history: per handle() call, the message it returned
                         \* (state 0: null, or it threw)
  hsPc,                  \* "none" | "run" | "failed" (a handle() threw)
  \* ---- the readonly BluetoothDevice of the client ----
  device,                \* this.device: its id and its name ("null": unnamed)
  \* ---- aesEncrypt followed by aesDecrypt ----
  aesArgs,               \* the plaintext (its length n and its bytes i * a + b),
                         \* the key, the IV (<< >>: none given) and the
                         \* random IV seed drawn when none is given
  aesFrame,              \* what aesEncrypt returned
  aesOut,                \* what aesDecrypt returned, or that it threw
  aesPc,                 \* "none" | "ready" | "encrypted" | "decrypted"
  \* ---- sendCommand validating the response to a read ----
  rsArgs,                \* the quantity asked for and the response bytes
  rsResult,              \* what sendCommand threw or returned
  rsPc,                  \* "none" | "waiting" | "returned"
  \* ---- handleNotification on the notifications of a handshake ----
  nfNet,                 \* the notifications the device has sent, oldest first
  nfTasks,               \* the handleNotification calls that have not returned
  \* ---- HandshakeMessage.toBytes and HandshakeMessage.parse ----
  hmArgs,                \* the message, and what was done to its bytes
  hmOut,                 \* what parse returned, or that it threw
  hmPc,                  \* "none" | "built" | "parsed"
  \* ---- the FailureInjector of the mock device ----
  overrideQueue,         \* FailureInjector.overrideQueue (head = next)
  fiLast,                \* history: the last call and what it reported
  fiPc                   \* "none" | "even" | "odd": parity of the calls made

scanVars == << scanDevice, scanRanges, totalRegisters, remainingRanges,
               scannedRegisters, scanPc, signalAborted, progress, store, now,
               priorStore, lastStep, readableRanges, reads >>

clientVars == << keyBundle, devEncrypted, connected, writeCharacteristic,
                 notifyCharacteristic, responsePromise, handshakeProtocol,
                 hpState, devHandshake, net, call, detected, timedOut,
                 last >>

pendingVars == << pendingArgs, pendingRanges, pendingPc >>

rtVars == << registers, rtArgs, rtPc, rtResult >>

hsVars == << hsBundles, hsProto, hsWire, hsTrace, hsSent, hsPc >>

deviceVars == << device >>

aesVars == << aesArgs, aesFrame, aesOut, aesPc >>

respVars == << rsArgs, rsResult, rsPc >>

notifyVars == << nfNet, nfTasks >>

msgVars == << hmArgs, hmOut, hmPc >>

injVars == << overrideQueue, fiLast, fiPc >>

libVars == << pendingVars, rtVars, hsVars, deviceVars, aesVars, respVars,
             notifyVars, msgVars, injVars >>

vars == << scanVars, clientVars, libVars >>

\* ------------------------------------------------------------------------
\* Helpers
\* ------------------------------------------------------------------------
Min(a, b) == IF a < b THEN a ELSE b

Range(s, e) == [start |-> s, end |-> e]

\* toReversed() that leaves the order as it is
Reverse_Same(s) == s

RECURSIVE Reverse(_)
Reverse(s) == IF s = << >> THEN << >> ELSE Reverse(Tail(s)) \o << Head(s) >>

\* Array.prototype.slice(b, e) on a sequence (0-based, end exclusive, clamped)
Slice(data, b, e) == SubSeq(data, b + 1, Min(e, Len(data)))

RegsOfRange(r) == { a \in Addrs : r.start <= a /\ a < r.end }
RegsOf(ranges) == UNION { RegsOfRange(ranges[i]) : i \in DOMAIN ranges }

\* ------------------------------------------------------------------------
\* scanner.ts: splitRangesToSize
\* ------------------------------------------------------------------------
\* a split that keeps every input range as one chunk
SplitOne_Whole(start, end, maxRegisterCount) ==
  IF start < end THEN << Range(start, end) >> ELSE << >>

RECURSIVE SplitOne(_, _, _)
SplitOne(start, end, maxRegisterCount) ==
  IF start < end
  THEN LET count == Min(end - start, maxRegisterCount)
       IN << Range(start, start + count) >>
            \o SplitOne(start + count, end, maxRegisterCount)
  ELSE << >>

RECURSIVE splitRangesToSize(_, _)
splitRangesToSize(ranges, maxRegisterCount) ==
  IF ranges = << >> THEN << >>
  ELSE SplitOne(Head(ranges).start, Head(ranges).end, maxRegisterCount)
         \o splitRangesToSize(Tail(ranges), maxRegisterCount)

\* a total that counts the ranges instead of their registers
SumSizes_CountsRanges(ranges) == Len(ranges)

RECURSIVE SumSizes(_)
SumSizes(ranges) ==
  IF ranges = << >> THEN 0
  ELSE (Head(ranges).end - Head(ranges).start) + SumSizes(Tail(ranges))

\* ------------------------------------------------------------------------
\* The device seen by the scanner (ScannableDevice.readRegisters).  The
\* production device is the BluetoothClient, whose parseResponse returns
\* response.slice(3, -2) of any CRC-valid response, so the payload holds
\* `got` registers, where got is what the device actually sent.
\* ------------------------------------------------------------------------
RegValue(a) == << a + 16, a >>

RECURSIVE ReadData(_, _)
ReadData(start, got) ==
  IF got <= 0 THEN << >>
  ELSE RegValue(start) \o ReadData(start + 1, got - 1)

PayloadSizes(count) == { count, 1 }

\* ------------------------------------------------------------------------
\* scanner.ts: recordResult (one transaction per register)
\* ------------------------------------------------------------------------
\* recordResult that skips the insert of an unreadable result
RecordResult_DropsUnreadable(st, d, register, value, t) ==
  LET update == [value |-> value, scannedAt |-> t, readable |-> value # NullValue]
  IN IF ~update.readable THEN st
     ELSE [st EXCEPT ![d] = (register :> update) @@ @]

\* recordResult whose update is unconditional (Object.assign without the guard)
RecordResult_Overwrite(st, d, register, value, t) ==
  LET update == [value |-> value, scannedAt |-> t, readable |-> value # NullValue]
  IN [st EXCEPT ![d] = (register :> update) @@ @]

RecordResult(st, d, register, value, t) ==
  LET update == [value |-> value, scannedAt |-> t, readable |-> value # NullValue]
  IN IF register \notin DOMAIN st[d]
     THEN [st EXCEPT ![d] = (register :> update) @@ @]
     ELSE IF ~update.readable /\ st[d][register].readable
          THEN st
          ELSE [st EXCEPT ![d][register] = update]

\* the success loop of step(): for (i = 0; i < count; i++) recordResult(...)
RECURSIVE RecordAll(_, _, _, _, _, _, _)
RecordAll(st, d, start, data, i, count, t) ==
  IF i >= count THEN st
  ELSE RecordAll(RecordResult(st, d, start + i, Slice(data, i * 2, (i + 1) * 2), t),
                 d, start, data, i + 1, count, t)

\* ------------------------------------------------------------------------
\* Inputs of the scanner constructor, and what earlier sessions left in
\* db.scanResults (entries written by recordResult at time 0)
\* ------------------------------------------------------------------------
InputRanges ==
  { << Range(s, e) >> : s \in {0, 1, 3}, e \in {3, 4, MaxAddr} }
    \cup { << Range(0, 2), Range(MaxAddr - 2, MaxAddr) >>, << >>,
           << Range(MaxAddr - 2, MaxAddr), Range(0, 2) >>,
           << Range(2, 2) >>, << Range(0, MAX_REGISTERS_PER_REQUEST) >> }

PriorReadable(a) == [value |-> << a + 32, a >>, scannedAt |-> 0, readable |-> TRUE]
PriorUnreadable == [value |-> NullValue, scannedAt |-> 0, readable |-> FALSE]

PriorStores ==
  { [d \in Devices |-> << >>],
    [d \in Devices |-> IF d = "d1" THEN [a \in 0 .. 4 |-> PriorReadable(a)]
                       ELSE << >>],
    [d \in Devices |-> IF d = "d1"
                       THEN (0 :> PriorReadable(0)) @@ (1 :> PriorUnreadable)
                              @@ (3 :> PriorReadable(3))
                       ELSE (0 :> PriorUnreadable)] }

\* ------------------------------------------------------------------------
\* Scanner actions
\* ------------------------------------------------------------------------
\* new RegisterScanner(device, scanRanges)
NewScanner(d, ranges) ==
  /\ scanPc = "none"
  /\ scanDevice' = d
  /\ scanRanges' = ranges
  /\ totalRegisters' = SumSizes(ranges)
  /\ remainingRanges' = Reverse(splitRangesToSize(ranges, MAX_REGISTERS_PER_REQUEST))
  /\ scannedRegisters' = 0
  /\ scanPc' = "ready"
  /\ UNCHANGED << signalAborted, progress, store, now, priorStore, lastStep,
                  readableRanges, reads >>
  /\ UNCHANGED << clientVars, libVars >>

\* run(): emitProgress(), then loop on step() until it returns false
Run ==
  /\ scanPc = "ready"
  /\ scanPc' = "running"
  /\ progress' = << scannedRegisters, totalRegisters >>
  /\ UNCHANGED << scanDevice, scanRanges, totalRegisters, remainingRanges,
                  scannedRegisters, signalAborted, store, now, priorStore, lastStep,
                  readableRanges, reads >>
  /\ UNCHANGED << clientVars, libVars >>

\* the caller aborts the signal it passes to run()/step()
Abort ==
  /\ scanPc \in {"ready", "running"}
  /\ ~signalAborted
  /\ signalAborted' = TRUE
  /\ UNCHANGED << scanDevice, scanRanges, totalRegisters, remainingRanges,
                  scannedRegisters, scanPc, progress, store, now, priorStore,
                  lastStep, readableRanges, reads >>
  /\ UNCHANGED << clientVars, libVars >>

\* a run() that does not look at what step() returns
AfterStep_KeepsRunning(ret) == scanPc

\* what the caller of step() does with its return value: run() leaves its
\* loop on false, a direct caller of step() keeps the scanner
AfterStep(ret) == IF scanPc = "running" /\ ~ret THEN "finished" ELSE scanPc

\* step(): if (signal?.aborted || this.remainingRanges.length === 0) return false
StepReturnsEarly_NoSignal == remainingRanges = << >>

StepReturnsEarly == signalAborted \/ remainingRanges = << >>

\* step() returning false at once: aborted or nothing left
StepIdle ==
  /\ scanPc \in {"ready", "running"}
  /\ StepReturnsEarly
  /\ scanPc' = AfterStep(FALSE)
  /\ lastStep' = [kind |-> "idle", ret |-> FALSE]
  /\ UNCHANGED << scanDevice, scanRanges, totalRegisters, remainingRanges,
                  scannedRegisters, signalAborted, progress, store, now,
                  priorStore, readableRanges, reads >>
  /\ UNCHANGED << clientVars, libVars >>

\* step() on one chunk; ok and got are the device's answer to readRegisters
StepChunk(ok, got) ==
  /\ scanPc \in {"ready", "running"}
  /\ ~StepReturnsEarly
  /\ LET range == remainingRanges[Len(remainingRanges)]
         rest  == SubSeq(remainingRanges, 1, Len(remainingRanges) - 1)
         count == range.end - range.start
         data  == ReadData(range.start, got)
         mid   == range.start + (count \div 2)
         after == IF ok \/ count = 1 THEN rest
                  ELSE rest \o << Range(range.start, mid), Range(mid, range.end) >>
     IN /\ got \in PayloadSizes(count)
        /\ ~ok => got = count
        /\ remainingRanges' = after
        /\ store' = IF ok
                    THEN RecordAll(store, scanDevice, range.start, data, 0, count, now)
                    ELSE IF count = 1
                         THEN RecordResult(store, scanDevice, range.start, NullValue, now)
                         ELSE store
        /\ scannedRegisters' = IF ok THEN scannedRegisters + count
                               ELSE IF count = 1 THEN scannedRegisters + 1
                               ELSE scannedRegisters
        /\ lastStep' = [kind |-> IF ok THEN "read"
                                 ELSE IF count = 1 THEN "unreadable" ELSE "split",
                        ret |-> after # << >>,
                        start |-> range.start, count |-> count,
                        data |-> IF ok THEN data ELSE << >>]
        /\ progress' = << scannedRegisters', totalRegisters >>
        /\ scanPc' = AfterStep(after # << >>)
  /\ now' = now + 1
  /\ reads' = reads + 1
  /\ UNCHANGED << scanDevice, scanRanges, totalRegisters, signalAborted,
                  priorStore, readableRanges >>
  /\ UNCHANGED << clientVars, libVars >>

\* the mock device of the scanner tests: a read succeeds iff one readable
\* range holds the whole chunk, and then returns every register asked for
IsReadable(startAddress, count) ==
  \E i \in DOMAIN readableRanges :
     /\ startAddress >= readableRanges[i].start
     /\ startAddress + count <= readableRanges[i].end

\* step() on one chunk, read from the mock device
StepMock ==
  /\ remainingRanges # << >>
  /\ LET range == remainingRanges[Len(remainingRanges)]
         count == range.end - range.start
     IN StepChunk(IsReadable(range.start, count), count)

\* ------------------------------------------------------------------------
\* client.ts: the BLE client, the GATT link and the device behind it
\* ------------------------------------------------------------------------
Calls == 1 .. MaxCalls

\* notifications and written frames: t is "H1".."H6" for the handshake
\* messages of states 1..6, "M" for a MODBUS command frame, "R" for a MODBUS
\* response; for is the call whose command the frame carries or answers; enc
\* tells whether the frame is wrapped with the session key
NoMsg == [t |-> "none", for |-> 0, enc |-> FALSE]
Hs(t) == [t |-> t, for |-> 0, enc |-> FALSE]
Cmd(c, e) == [t |-> "M", for |-> c, enc |-> e]
Resp(c, e) == [t |-> "R", for |-> c, enc |-> e]

\* per call: kind ("connect" | "cmd"), pc (where it is suspended), aborted
\* (its deadline signal), result and data (what the caller got; data is the
\* call whose command the returned response answers), written (its command
\* frame: "no" | "plain" | "enc"), got (what its response promise resolved
\* with), and history: detached (isConnected was false when it was called),
\* start ("clean": no other call was active and no notification in flight
\* then; "afterTimeout": clean, connected, and a request had timed out on this
\* connection; else "busy"), subscribed (it ran connectInternal through
\* startNotifications), blocker (the slot it found occupied), blocked (a call
\* was turned away because this one held the slot), at (where it was when it
\* returned), id (its number, in the record kept in last), oversize (the
\* frame the size test of readRegisters/writeRegisters looks at is larger
\* than MAX_PACKET_SIZE)
IdleCall == [id |-> -1, kind |-> "none", pc |-> "idle", aborted |-> FALSE,
             result |-> "none", data |-> 0, written |-> "no", got |-> NoMsg,
             detached |-> FALSE, start |-> "none", subscribed |-> FALSE,
             blocker |-> 0, blocked |-> FALSE, at |-> "idle",
             oversize |-> FALSE]

\* a call that has returned keeps nothing but its position
ReturnedCall == [IdleCall EXCEPT !.pc = "done"]
NoCall == [IdleCall EXCEPT !.id = 0]

\* the tasks that share the client; each awaits its call before the next one
Tasks == {"app", "scanner"}
Active == { c \in Calls : call[c].pc \notin {"idle", "done"} }

StartOf ==
  IF Active = {} /\ net = << >>
  THEN (IF timedOut /\ writeCharacteristic /\ notifyCharacteristic
        THEN "afterTimeout" ELSE "clean")
  ELSE "busy"

\* the calls as the step leaves them: newc maps the calls the step touched
\* to their new records; a returned call is remembered in last
Store(newc) ==
  LET full == [c \in Calls |-> IF c \in DOMAIN newc THEN newc[c] ELSE call[c]]
      ret == { c \in DOMAIN newc : newc[c].pc = "done" }
  IN /\ call' = [c \in Calls |->
                   IF full[c].pc = "done" THEN ReturnedCall ELSE full[c]]
     /\ IF ret = {} THEN last' = NoCall
        ELSE \E c \in ret : last' = [newc[c] EXCEPT !.id = c]

isConnected == writeCharacteristic /\ notifyCharacteristic
isEncrypted == handshakeProtocol # 0 /\ hpState[handshakeProtocol] = "done"

\* a call that has returned to its caller
Done(cr, res) ==
  [cr EXCEPT !.pc = "done", !.result = res, !.got = NoMsg, !.at = cr.pc]

\* Fail without the signal.aborted test of the catch blocks
Fail_AsThrown(cr) == Done(cr, "Error")

\* the catch blocks of connectInternal and sendCommand: any error becomes a
\* TimeoutError once the signal is aborted
Fail(cr) == Done(cr, IF cr.aborted THEN "Timeout" ELSE "Error")

\* HandshakeProtocol.handle(data) on an object in state st: the new state and
\* the reply to write; a message that does not parse or finds the needed key
\* material missing throws and leaves the object as it was
Handle(st, msg) ==
  IF st = "new" /\ msg.t = "H1" THEN [st |-> "chal", reply |-> Hs("H2"), threw |-> FALSE]
  ELSE IF st = "chal" /\ msg.t = "H3" THEN [st |-> "eph", reply |-> NoMsg, threw |-> FALSE]
  ELSE IF st = "eph" /\ msg.t = "H4" THEN [st |-> "peer", reply |-> Hs("H5"), threw |-> FALSE]
  ELSE IF st = "peer" /\ msg.t = "H6" THEN [st |-> "done", reply |-> NoMsg, threw |-> FALSE]
  ELSE [st |-> st, reply |-> NoMsg, threw |-> TRUE]

\* the device receiving a written frame: handshake replies while its own
\* handshake is open, otherwise a MODBUS response unless it stays silent
\* (answer = FALSE); hs and nt are the device handshake state and the
\* notifications in flight
DevOnWrite(frame, answer, hs, nt) ==
  IF frame.t = "H2" /\ devEncrypted /\ hs = "sent1"
  THEN [hs |-> "sent4", net |-> nt \o << Hs("H3"), Hs("H4") >>]
  ELSE IF frame.t = "H5" /\ devEncrypted /\ hs = "sent4"
  THEN [hs |-> "done", net |-> Append(nt, Hs("H6"))]
  ELSE IF /\ frame.t = "M" /\ answer
          /\ IF devEncrypted THEN hs = "done" /\ frame.enc ELSE ~frame.enc
  THEN [hs |-> hs, net |-> Append(nt, Resp(frame.for, frame.enc))]
  ELSE [hs |-> hs, net |-> nt]

WrittenAs(e) == IF e THEN "enc" ELSE "plain"

\* sendCommand line 328: this.write(commandData) is called, then withAbort
\* looks at the signal; sl is the slot, wc whether writeCharacteristic is set
WriteCommand(c, cr, sl, wc, e) ==
  IF ~wc THEN [cr |-> Fail(cr), slot |-> 0, frame |-> NoMsg]
  ELSE IF cr.aborted
  THEN [cr |-> Done([cr EXCEPT !.written = WrittenAs(e)], "Timeout"),
        slot |-> 0, frame |-> Cmd(c, e)]
  ELSE [cr |-> [cr EXCEPT !.pc = "write", !.written = WrittenAs(e)],
        slot |-> sl, frame |-> Cmd(c, e)]

\* SendCommand without the "Command in progress" check
SendCommand_NoCheck(c, cr, sl, wc, keyed) ==
  IF keyed THEN [cr |-> [cr EXCEPT !.pc = "enc"], slot |-> c, frame |-> NoMsg]
  ELSE WriteCommand(c, cr, c, wc, FALSE)

\* sendCommand lines 312-328, run when connectInternal has returned
SendCommand(c, cr, sl, wc, keyed) ==
  IF sl # 0
  THEN [cr |-> Done([cr EXCEPT !.blocker = sl], "Concurrency"), slot |-> sl,
        frame |-> NoMsg]
  ELSE IF keyed THEN [cr |-> [cr EXCEPT !.pc = "enc"], slot |-> c, frame |-> NoMsg]
  ELSE WriteCommand(c, cr, c, wc, FALSE)

\* connectInternal returning normally to connect() or to sendCommand
ConnectReturned(c, cr, sl, wc, keyed) ==
  IF cr.kind = "connect" THEN [cr |-> Done(cr, "ok"), slot |-> sl, frame |-> NoMsg]
  ELSE SendCommand(c, cr, sl, wc, keyed)

\* a decoded response: CRC-valid MODBUS data reaches the caller
Validate(cr, msg, plain) ==
  IF msg.t = "R" /\ plain THEN [Done(cr, "ok") EXCEPT !.data = msg.for]
  ELSE Fail(cr)

\* sendCommand lines 331-347, run when the response promise has resolved
OnResponse(cr, msg, sl, keyed) ==
  IF keyed THEN [cr |-> [cr EXCEPT !.pc = "dec", !.got = msg], slot |-> sl]
  ELSE [cr |-> Validate(cr, msg, ~msg.enc), slot |-> 0]

\* a call c moves on with record r.cr, slot r.slot, and the frame r.frame (if
\* any) reaches the device
Effect(c, r, answer) ==
  LET dv == DevOnWrite(r.frame, answer, devHandshake, net)
      b == r.cr.blocker
  IN /\ Store(IF /\ r.cr.result = "Concurrency" /\ b > 0 /\ b # c
                 /\ call[b].pc \in {"write", "wait"}
              THEN (c :> r.cr) @@ (b :> [call[b] EXCEPT !.blocked = TRUE])
              ELSE (c :> r.cr))
     /\ responsePromise' = r.slot
     /\ devHandshake' = dv.hs
     /\ net' = dv.net

\* ReadHoldingRegisters.responseSize()
responseSize(quantity) == 2 * quantity + 5

\* WriteHoldingRegisters.command.length for data of n bytes:
\* [addr][fc][startAddr:2][quantity:2][byteCount][data...][crc:2]
commandLength(n) == 7 + n + 2

\* the size readRegisters(_, n) / writeRegisters(_, data of n bytes) compares
\* with MAX_PACKET_SIZE
FrameSize(op, n) ==
  IF op = "read" THEN responseSize(n)
  ELSE IF op = "write" THEN commandLength(n) ELSE 0

\* a size test that lets every frame through
TooLarge_Never(op, n) == FALSE

TooLarge(op, n) == FrameSize(op, n) > MAX_PACKET_SIZE

\* the arguments the calls are made with: register counts around the largest
\* response that fits, data lengths around the largest command that fits
RequestSizes(op) ==
  IF op = "read"
  THEN { MAX_REGISTERS_PER_REQUEST, MAX_REGISTERS_PER_REQUEST + 1 }
  ELSE IF op = "write" THEN { 10, 12 } ELSE { 0 }

\* connect(), readRegisters(_, n) or writeRegisters(_, data of n bytes) is
\* called.  A request whose frame is too large throws before sendCommand:
\* it never suspends, so it takes no place in call and is seen in last only.
\* Any other call runs up to its first suspension: connectInternal returns at
\* once when isConnected, else gatt.connect() starts.
Call(c, op, n, answer) ==
  /\ call[c].pc = "idle"
  /\ \A b \in Calls : b < c => call[b].pc # "idle"
  /\ Cardinality(Active) < Cardinality(Tasks)
  /\ n \in RequestSizes(op)
  /\ IF TooLarge(op, n)
     THEN /\ last' = [IdleCall EXCEPT !.id = c, !.kind = "cmd", !.pc = "done",
                                      !.result = "PacketTooLarge",
                                      !.detached = ~isConnected,
                                      !.start = StartOf, !.oversize = TRUE]
          /\ UNCHANGED << call, responsePromise, devHandshake, net >>
     ELSE LET cr == [IdleCall EXCEPT
                       !.kind = IF op = "connect" THEN "connect" ELSE "cmd",
                       !.detached = ~isConnected,
                       !.start = StartOf,
                       !.oversize = FrameSize(op, n) > MAX_PACKET_SIZE]
          IN Effect(c, IF isConnected
                       THEN ConnectReturned(c, cr, responsePromise, TRUE, isEncrypted)
                       ELSE [cr |-> [cr EXCEPT !.pc = "c_gatt"],
                             slot |-> responsePromise, frame |-> NoMsg],
                    answer)
  /\ UNCHANGED << keyBundle, devEncrypted, connected, writeCharacteristic,
                  notifyCharacteristic, handshakeProtocol, hpState, detected,
                  timedOut >>
  /\ UNCHANGED << scanVars, libVars >>

\* gatt.connect() resolves; getPrimaryService starts
GattConnected(c) ==
  /\ call[c].pc = "c_gatt"
  /\ connected' = TRUE
  /\ Store(c :> [call[c] EXCEPT !.pc = "c_svc"])
  /\ UNCHANGED << keyBundle, devEncrypted, writeCharacteristic,
                  notifyCharacteristic, responsePromise, handshakeProtocol,
                  hpState, devHandshake, net, detected,
                  timedOut >>
  /\ UNCHANGED << scanVars, libVars >>

\* getPrimaryService resolves; getCharacteristic(write) starts
ServiceResolved(c) ==
  /\ call[c].pc = "c_svc"
  /\ Store(c :> [call[c] EXCEPT !.pc = "c_wc"])
  /\ UNCHANGED << keyBundle, devEncrypted, connected, writeCharacteristic,
                  notifyCharacteristic, responsePromise, handshakeProtocol,
                  hpState, devHandshake, net, detected,
                  timedOut >>
  /\ UNCHANGED << scanVars, libVars >>

\* this.writeCharacteristic = ...; getCharacteristic(notify) starts
WriteCharResolved(c) ==
  /\ call[c].pc = "c_wc"
  /\ writeCharacteristic' = TRUE
  /\ Store(c :> [call[c] EXCEPT !.pc = "c_nc"])
  /\ UNCHANGED << keyBundle, devEncrypted, connected, notifyCharacteristic,
                  responsePromise, handshakeProtocol, hpState, devHandshake,
                  net, detected,
                  timedOut >>
  /\ UNCHANGED << scanVars, libVars >>

\* this.notifyCharacteristic = ...; the listener is added and
\* startNotifications starts; an encrypted device opens its handshake
NotifyCharResolved(c) ==
  /\ call[c].pc = "c_nc"
  /\ notifyCharacteristic' = TRUE
  /\ Store(c :> [call[c] EXCEPT !.pc = "c_start"])
  /\ IF devEncrypted /\ devHandshake = "idle"
     THEN devHandshake' = "sent1" /\ net' = Append(net, Hs("H1"))
     ELSE UNCHANGED << devHandshake, net >>
  /\ UNCHANGED << keyBundle, devEncrypted, connected, writeCharacteristic,
                  responsePromise, handshakeProtocol, hpState, detected,
                  timedOut >>
  /\ UNCHANGED << scanVars, libVars >>

\* startNotifications resolves; detectAndHandleEncryption returns at once
\* without a key bundle, else installs its promise in the slot
StartResolved(c, answer) ==
  /\ call[c].pc = "c_start"
  /\ Effect(c, IF keyBundle
               THEN [cr |-> [call[c] EXCEPT !.pc = "det", !.subscribed = TRUE],
                     slot |-> -c,
                     frame |-> NoMsg]
               ELSE ConnectReturned(c, [call[c] EXCEPT !.subscribed = TRUE],
                                    responsePromise, writeCharacteristic,
                                    isEncrypted),
            answer)
  /\ UNCHANGED << keyBundle, devEncrypted, connected, writeCharacteristic,
                  notifyCharacteristic, handshakeProtocol, hpState, detected,
                  timedOut >>
  /\ UNCHANGED << scanVars, libVars >>

\* the detection wait is rejected (catch: return; finally: slot = null) and
\* connectInternal returns
DetectionOver(c, cr, answer) ==
  /\ Effect(c, ConnectReturned(c, cr, 0, writeCharacteristic, isEncrypted), answer)
  /\ UNCHANGED << keyBundle, devEncrypted, connected, writeCharacteristic,
                  notifyCharacteristic, handshakeProtocol, hpState, detected,
                  timedOut >>
  /\ UNCHANGED << scanVars, libVars >>

\* SlotAfterAbort without the finally block of sendCommand
SlotAfterAbort_NoFinally(pc, sl) == sl

\* the slot after the abort rejected a call suspended at pc: sendCommand's
\* finally empties it, connectInternal has no cleanup
SlotAfterAbort(pc, sl) == IF pc \in {"write", "wait"} THEN 0 ELSE sl

\* INITIAL_ENCRYPTION_TIMEOUT_MS passes without a notification
DetectExpire(c, answer) ==
  /\ call[c].pc = "det"
  /\ DetectionOver(c, call[c], answer)

\* the call's deadline signal aborts
Expire(c, answer) ==
  /\ call[c].pc \notin {"idle", "done"}
  /\ ~call[c].aborted
  /\ LET cr == [call[c] EXCEPT !.aborted = TRUE]
     IN IF cr.pc = "det" THEN DetectionOver(c, cr, answer)
        ELSE /\ Store(c :> IF cr.pc \in {"enc", "dec", "hs_handle", "hs_write"}
                             THEN cr ELSE Done(cr, "Timeout"))
             /\ responsePromise' = SlotAfterAbort(cr.pc, responsePromise)
             /\ timedOut' = (timedOut \/ cr.pc = "wait")
             /\ UNCHANGED << keyBundle, devEncrypted, connected,
                             writeCharacteristic, notifyCharacteristic,
                             handshakeProtocol, hpState, devHandshake, net,
                             detected >>
             /\ UNCHANGED << scanVars, libVars >>

\* new HandshakeProtocol(keyBundle); handle(data) resolves; write(res!) starts
HandshakeHandled(c, answer) ==
  /\ call[c].pc = "hs_handle"
  /\ LET h == Handle("new", call[c].got)
         ok == ~h.threw /\ writeCharacteristic
         dv == DevOnWrite(IF ok THEN h.reply ELSE NoMsg, answer, devHandshake, net)
     IN /\ Store(c :> IF ok THEN [call[c] EXCEPT !.pc = "hs_write", !.got = NoMsg]
                       ELSE Fail(call[c]))
        /\ hpState' = [hpState EXCEPT ![c] = h.st]
        /\ devHandshake' = dv.hs
        /\ net' = dv.net
  /\ UNCHANGED << keyBundle, devEncrypted, connected, writeCharacteristic,
                  notifyCharacteristic, responsePromise, handshakeProtocol,
                  detected,
                  timedOut >>
  /\ UNCHANGED << scanVars, libVars >>

\* write(res!) resolves; this.handshakeProtocol = handshakeProtocol; the wait
\* for the session key starts
HandshakeWritten(c) ==
  /\ call[c].pc = "hs_write"
  /\ handshakeProtocol' = c
  /\ Store(c :> IF call[c].aborted THEN Done(call[c], "Timeout")
                 ELSE [call[c] EXCEPT !.pc = "hs_key"])
  /\ UNCHANGED << keyBundle, devEncrypted, connected, writeCharacteristic,
                  notifyCharacteristic, responsePromise, hpState, devHandshake,
                  net, detected,
                  timedOut >>
  /\ UNCHANGED << scanVars, libVars >>

\* aesEncrypt resolves; the encrypted frame is written
EncryptDone(c, answer) ==
  /\ call[c].pc = "enc"
  /\ Effect(c, WriteCommand(c, call[c], responsePromise, writeCharacteristic, TRUE),
            answer)
  /\ UNCHANGED << keyBundle, devEncrypted, connected, writeCharacteristic,
                  notifyCharacteristic, handshakeProtocol, hpState, detected,
                  timedOut >>
  /\ UNCHANGED << scanVars, libVars >>

\* writeValueWithResponse resolves; the wait for the response starts, or
\* continues at once with a response that already came
WriteResolved(c) ==
  /\ call[c].pc = "write"
  /\ LET r == IF call[c].got = NoMsg
              THEN [cr |-> [call[c] EXCEPT !.pc = "wait"], slot |-> responsePromise]
              ELSE OnResponse(call[c], call[c].got, responsePromise, isEncrypted)
     IN /\ Store(c :> r.cr)
        /\ responsePromise' = r.slot
  /\ UNCHANGED << keyBundle, devEncrypted, connected, writeCharacteristic,
                  notifyCharacteristic, handshakeProtocol, hpState,
                  devHandshake, net, detected,
                  timedOut >>
  /\ UNCHANGED << scanVars, libVars >>

\* aesDecrypt resolves; the response is validated; finally: slot = null
DecryptDone(c) ==
  /\ call[c].pc = "dec"
  /\ Store(c :> Validate(call[c], call[c].got, call[c].got.enc))
  /\ responsePromise' = 0
  /\ UNCHANGED << keyBundle, devEncrypted, connected, writeCharacteristic,
                  notifyCharacteristic, handshakeProtocol, hpState,
                  devHandshake, net, detected,
                  timedOut >>
  /\ UNCHANGED << scanVars, libVars >>

\* handleNotification for the oldest notification in flight
Deliver(answer) ==
  /\ net # << >>
  /\ notifyCharacteristic
  /\ LET msg == Head(net)
         h == handshakeProtocol
     IN IF h # 0 /\ hpState[h] # "done"
        THEN \* advance the handshake and write its reply; a resolved session
             \* key promise lets the connecting call go on
             LET r == Handle(hpState[h], msg)
                 resume == r.st = "done" /\ call[h].pc = "hs_key"
                 cont == ConnectReturned(h, call[h], responsePromise,
                                         writeCharacteristic, TRUE)
                 dv == DevOnWrite(r.reply, answer, devHandshake, Tail(net))
             IN /\ hpState' = [hpState EXCEPT ![h] = r.st]
                /\ IF resume THEN Store(h :> cont.cr)
                   ELSE Store(<< >>)
                /\ responsePromise' = IF resume THEN cont.slot ELSE responsePromise
                /\ devHandshake' = dv.hs
                /\ net' = dv.net
                /\ UNCHANGED detected
        ELSE IF responsePromise # 0
        THEN \* resolve the promise in the slot and empty the slot
             LET det == responsePromise < 0
                 c == IF det THEN -responsePromise ELSE responsePromise
                 r == IF det
                      THEN [cr |-> [call[c] EXCEPT !.pc = "hs_handle", !.got = msg],
                            slot |-> 0]
                      ELSE IF call[c].pc = "wait"
                      THEN OnResponse(call[c], msg, 0, isEncrypted)
                      ELSE [cr |-> [call[c] EXCEPT !.got = msg], slot |-> 0]
             IN /\ Store(c :> r.cr)
                /\ responsePromise' = r.slot
                /\ net' = Tail(net)
                /\ detected' = (detected \/ det)
                /\ UNCHANGED << hpState, devHandshake >>
        ELSE \* nobody waits: the notification is dropped
             /\ net' = Tail(net)
             /\ Store(<< >>)
             /\ UNCHANGED << responsePromise, hpState, devHandshake, detected >>
  /\ UNCHANGED << keyBundle, devEncrypted, connected, writeCharacteristic,
                  notifyCharacteristic, handshakeProtocol, timedOut >>
  /\ UNCHANGED << scanVars, libVars >>

\* the link drops (or disconnect() is called): handleGattServerDisconnected
\* runs, pending GATT operations reject, the device forgets its handshake
\* a disconnect handler that keeps the HandshakeProtocol object
Disconnect_KeepsSession ==
  /\ connected
  /\ connected' = FALSE
  /\ writeCharacteristic' = FALSE
  /\ notifyCharacteristic' = FALSE
  /\ responsePromise' = 0
  /\ net' = << >>
  /\ devHandshake' = "idle"
  /\ detected' = FALSE
  /\ timedOut' = FALSE
  /\ LET pending == { c \in Calls : call[c].pc \in
                        {"c_svc", "c_wc", "c_nc", "c_start", "hs_write", "write"} }
     IN Store([c \in pending |-> Fail(call[c])])
  /\ UNCHANGED << keyBundle, devEncrypted, hpState, handshakeProtocol >>
  /\ UNCHANGED << scanVars, libVars >>

Disconnect ==
  /\ connected
  /\ connected' = FALSE
  /\ writeCharacteristic' = FALSE
  /\ notifyCharacteristic' = FALSE
  /\ responsePromise' = 0
  /\ handshakeProtocol' = 0
  /\ net' = << >>
  /\ devHandshake' = "idle"
  /\ detected' = FALSE
  /\ timedOut' = FALSE
  /\ LET pending == { c \in Calls : call[c].pc \in
                        {"c_svc", "c_wc", "c_nc", "c_start", "hs_write", "write"} }
     IN Store([c \in pending |-> Fail(call[c])])
  /\ UNCHANGED << keyBundle, devEncrypted, hpState >>
  /\ UNCHANGED << scanVars, libVars >>

\* no client has been constructed
NoDevice == [id |-> "none", name |-> "null"]

\* the devices a client is constructed for: a named and an unnamed one
DeviceHandles == { [id |-> "d1", name |-> "AC300Test"],
                   [id |-> "d2", name |-> "null"] }

\* get id, get deviceName
id == device.id
deviceName == device.name

ClientFresh ==
  /\ connected = FALSE
  /\ writeCharacteristic = FALSE
  /\ notifyCharacteristic = FALSE
  /\ responsePromise = 0
  /\ handshakeProtocol = 0
  /\ hpState = [c \in Calls |-> "new"]
  /\ devHandshake = "idle"
  /\ net = << >>
  /\ call = [c \in Calls |-> IdleCall]
  /\ detected = FALSE
  /\ timedOut = FALSE
  /\ last = NoCall

ScanQuiet ==
  /\ scanDevice = "none"
  /\ scanRanges = << >>
  /\ totalRegisters = 0
  /\ remainingRanges = << >>
  /\ scannedRegisters = 0
  /\ scanPc = "none"
  /\ signalAborted = FALSE
  /\ progress = << >>
  /\ now = 1
  /\ lastStep = [kind |-> "none", ret |-> FALSE]
  /\ readableRanges = << >>
  /\ reads = 0

\* no scanner and no client: the state the specifications of the pure
\* functions hold the application in
AppQuiet ==
  /\ ScanQuiet
  /\ store = [d \in Devices |-> << >>]
  /\ priorStore = store
  /\ keyBundle = FALSE
  /\ devEncrypted = FALSE
  /\ device = NoDevice
  /\ ClientFresh

\* no call of calculatePendingRanges is modelled
PendingQuiet ==
  /\ pendingArgs = [start |-> 0, end |-> 0, scanned |-> << >>]
  /\ pendingRanges = << >>
  /\ pendingPc = "none"

\* no write/read round trip is modelled
RtQuiet ==
  /\ registers = << >>
  /\ rtArgs = [a |-> 0, data |-> << >>]
  /\ rtPc = "none"
  /\ rtResult = << >>

\* no handshake pair is modelled
HsQuiet ==
  /\ hsBundles = << >>
  /\ hsProto = << >>
  /\ hsWire = << >>
  /\ hsTrace = << >>
  /\ hsSent = << >>
  /\ hsPc = "none"

\* no AES call is modelled
AesQuiet ==
  /\ aesArgs = << >>
  /\ aesFrame = << >>
  /\ aesOut = << >>
  /\ aesPc = "none"

\* no response is being validated
RespQuiet ==
  /\ rsArgs = << >>
  /\ rsResult = << >>
  /\ rsPc = "none"

\* no notification handler is modelled
NotifyQuiet ==
  /\ nfNet = << >>
  /\ nfTasks = << >>

\* no handshake message is built or parsed
MsgQuiet ==
  /\ hmArgs = << >>
  /\ hmOut = << >>
  /\ hmPc = "none"

\* no failure injector is modelled
InjQuiet ==
  /\ overrideQueue = << >>
  /\ fiLast = << >>
  /\ fiPc = "none"

LibQuiet ==
  /\ PendingQuiet /\ RtQuiet /\ HsQuiet /\ AesQuiet /\ RespQuiet /\ NotifyQuiet
  /\ MsgQuiet /\ InjQuiet

InitClient ==
  /\ keyBundle \in BOOLEAN
  /\ devEncrypted \in BOOLEAN
  /\ device \in DeviceHandles
  /\ ClientFresh
  /\ ScanQuiet
  /\ LibQuiet
  /\ store = [d \in Devices |-> << >>]
  /\ priorStore = store

NextClient ==
  \/ \E c \in Calls, op \in {"connect", "read", "write"},
        n \in 0 .. (MAX_REGISTERS_PER_REQUEST + 5), answer \in BOOLEAN :
          Call(c, op, n, answer)
  \/ \E c \in Calls : GattConnected(c)
  \/ \E c \in Calls : ServiceResolved(c)
  \/ \E c \in Calls : WriteCharResolved(c)
  \/ \E c \in Calls : NotifyCharResolved(c)
  \/ \E c \in Calls, answer \in BOOLEAN : StartResolved(c, answer)
  \/ \E c \in Calls, answer \in BOOLEAN : DetectExpire(c, answer)
  \/ \E c \in Calls, answer \in BOOLEAN : Expire(c, answer)
  \/ \E c \in Calls, answer \in BOOLEAN : HandshakeHandled(c, answer)
  \/ \E c \in Calls : HandshakeWritten(c)
  \/ \E c \in Calls, answer \in BOOLEAN : EncryptDone(c, answer)
  \/ \E c \in Calls : WriteResolved(c)
  \/ \E c \in Calls : DecryptDone(c)
  \/ \E answer \in BOOLEAN : Deliver(answer)
  \/ Disconnect

SpecClient == InitClient /\ [][NextClient]_vars

\* ------------------------------------------------------------------------
\* Client claims
\* ------------------------------------------------------------------------
\* call c is made in this step
Started(c) == call[c].pc = "idle" /\ call'[c].pc # "idle"

\* the record of call c as this step leaves it (a returned call is in last)
After(c) == IF last'.id = c THEN last' ELSE call'[c]

\* call c owns the slot and awaits its notification
InFlight(c) == responsePromise = c /\ call[c].pc \in {"write", "wait"}

\* C1: a readRegisters/writeRegisters call made on a connected client while
\* another request holds the slot and awaits its notification returns the
\* concurrency error at once, writes no frame, and leaves the slot and the
\* waiting request as they were.
C1_SingleFlight ==
  [][\A c1, c2 \in Calls :
       (Started(c2) /\ After(c2).kind = "cmd" /\ isConnected /\ InFlight(c1))
         => /\ last'.id = c2
            /\ last'.result = "Concurrency"
            /\ last'.written = "no"
            /\ responsePromise' = c1
            /\ net' = net
            /\ devHandshake' = devHandshake
            /\ call'[c1] = [call[c1] EXCEPT !.blocked = TRUE]]_vars

\* a request that turned another call away while it was waiting has just
\* returned the response to its own frame
C1_Witness ==
  /\ last.id > 0 /\ last.kind = "cmd"
  /\ last.blocked
  /\ last.result = "ok" /\ last.data = last.id
  /\ last.at = "wait"

\* call c has written its frame and no response, error or cancellation has
\* come for it yet
Waiting(c) ==
  /\ call[c].pc \in {"write", "wait"}
  /\ call[c].written # "no"
  /\ call[c].got = NoMsg

\* C2: at no time have two requests been written whose callers are both
\* still waiting for a response, an error or a cancellation.
C2_OneWrittenRequest ==
  \A c1, c2 \in Calls : (Waiting(c1) /\ Waiting(c2)) => c1 = c2

C4_DisconnectRejects ==
  [][(connected /\ ~connected')
       => \A c \in Calls :
            (call[c].pc = "wait" /\ responsePromise = c)
              => (last'.id = c /\ last'.result = "Disconnected")]_vars

C6_Detection ==
  (last.id > 0 /\ last.kind = "connect" /\ last.result = "ok")
    => /\ isEncrypted <=> (keyBundle /\ detected)
       /\ ~isEncrypted => handshakeProtocol = 0

\* C7: once a notification was taken as the handshake challenge on a
\* connection, every MODBUS frame written on it is wrapped with the session
\* key.
C7_NoPlaintextAfterHandshake ==
  [][\A c \in Calls :
       (detected /\ call[c].written = "no" /\ After(c).written # "no")
         => After(c).written = "enc"]_vars


\* ------------------------------------------------------------------------
\* scanner.ts: initial state and next-state relation
\* ------------------------------------------------------------------------
InitScan ==
  /\ scanDevice = "none"
  /\ scanRanges = << >>
  /\ totalRegisters = 0
  /\ remainingRanges = << >>
  /\ scannedRegisters = 0
  /\ scanPc = "none"
  /\ signalAborted = FALSE
  /\ progress = << >>
  /\ store \in PriorStores
  /\ priorStore = store
  /\ now = 1
  /\ lastStep = [kind |-> "none", ret |-> FALSE]
  /\ readableRanges = << >>
  /\ reads = 0
  /\ keyBundle = FALSE
  /\ devEncrypted = FALSE
  /\ device = NoDevice
  /\ ClientFresh
  /\ LibQuiet

NextScan ==
  \/ \E d \in Devices, ranges \in InputRanges : NewScanner(d, ranges)
  \/ Run
  \/ Abort
  \/ StepIdle
  \/ \E ok \in BOOLEAN, got \in 1 .. MAX_REGISTERS_PER_REQUEST : StepChunk(ok, got)

SpecScan == InitScan /\ [][NextScan]_vars

\* ------------------------------------------------------------------------
\* Scanner claims
\* ------------------------------------------------------------------------
HasEntry(d, r) == r \in DOMAIN store[d]

\* C8: when run() returns and the signal was not aborted, the store holds an
\* entry (readable true or false) for every register of the input ranges.
C8_Completeness ==
  (scanPc = "finished" /\ ~signalAborted)
    => \A r \in RegsOf(scanRanges) :
         HasEntry(scanDevice, r) /\ store[scanDevice][r].readable \in BOOLEAN

\* a finished, unaborted run over more than one chunk that recorded both
\* readable and unreadable registers
C8_Witness ==
  /\ scanPc = "finished" /\ ~signalAborted
  /\ Cardinality(RegsOf(scanRanges)) > MAX_REGISTERS_PER_REQUEST
  /\ \E r1, r2 \in RegsOf(scanRanges) :
        /\ store[scanDevice][r1].readable /\ store[scanDevice][r1].scannedAt >= 1
        /\ ~store[scanDevice][r2].readable /\ store[scanDevice][r2].scannedAt >= 1

\* an entry of the store was written (added or modified) by this step
Written(d, r) ==
  /\ r \in DOMAIN store'[d]
  /\ r \notin DOMAIN store[d] \/ store'[d][r] # store[d][r]

\* C9: every readable entry (r, v) the scanner writes has v equal to exactly
\* the two bytes at offset 2*(r - chunk_start) of the data returned by the
\* successful read of the chunk containing r.
C9_Soundness ==
  [][\A d \in Devices : \A r \in Addrs :
       (Written(d, r) /\ store'[d][r].readable)
         => /\ lastStep'.kind = "read" /\ d = scanDevice
            /\ lastStep'.start <= r /\ r < lastStep'.start + lastStep'.count
            /\ Len(lastStep'.data) >= 2 * (r - lastStep'.start) + 2
            /\ store'[d][r].value =
                 SubSeq(lastStep'.data, 2 * (r - lastStep'.start) + 1,
                                        2 * (r - lastStep'.start) + 2)]_vars

\* C10: a stored readable entry is never changed by a failed read (readable,
\* value and scannedAt stay); it changes only by a successful read covering
\* it, and then stays readable.
C10_UpgradeOnly ==
  [][\A d \in Devices : \A r \in DOMAIN store[d] :
       store[d][r].readable
         => /\ r \in DOMAIN store'[d]
            /\ \/ store'[d][r] = store[d][r]
               \/ /\ lastStep'.kind = "read" /\ d = scanDevice
                  /\ lastStep'.start <= r /\ r < lastStep'.start + lastStep'.count
                  /\ store'[d][r].readable]_vars

\* the last step was a failed read of the single register r1, which the store
\* held readable and still holds unchanged, after the same scan upgraded r2
\* from unreadable to readable
C10_Witness ==
  /\ lastStep.kind = "unreadable"
  /\ \E r1, r2 \in DOMAIN priorStore[scanDevice] :
        /\ lastStep.start = r1
        /\ priorStore[scanDevice][r1].readable
        /\ store[scanDevice][r1] = priorStore[scanDevice][r1]
        /\ ~priorStore[scanDevice][r2].readable
        /\ store[scanDevice][r2].readable

\* C11: a readRegisters whose response would exceed 20 bytes (count >= 8) or
\* a writeRegisters whose command frame exceeds 20 bytes fails at once with
\* the packet-size error: no call with such a frame ever gets to connect or
\* to write, and the step that rejects it leaves the link, the
\* characteristics, the in-flight slot, the session and every other call as
\* they were.
C11_MtuEnforced ==
  [][/\ \A c \in Calls : ~call'[c].oversize
     /\ last'.oversize
          => /\ last'.result = "PacketTooLarge"
             /\ last'.at = "idle" /\ last'.written = "no"
             /\ UNCHANGED << connected, writeCharacteristic, notifyCharacteristic,
                             responsePromise, handshakeProtocol, hpState,
                             devHandshake, net, call >>]_vars

\* an oversized request was rejected on a connected client while another
\* request held the slot
C11_Witness ==
  /\ last.oversize /\ last.result = "PacketTooLarge"
  /\ isConnected
  /\ responsePromise > 0
  /\ call[responsePromise].pc = "wait"

\* ------------------------------------------------------------------------
\* The scanner run against the mock device of the scanner tests
\* ------------------------------------------------------------------------
MockProfiles ==
  { << Range(0, 3), Range(4, 7) >>, << Range(0, MaxAddr) >>, << >>,
    << Range(0, 5) >>, << Range(2, 3) >> }

InitMock ==
  /\ scanDevice = "none"
  /\ scanRanges = << >>
  /\ totalRegisters = 0
  /\ remainingRanges = << >>
  /\ scannedRegisters = 0
  /\ scanPc = "none"
  /\ signalAborted = FALSE
  /\ progress = << >>
  /\ store \in PriorStores
  /\ priorStore = store
  /\ now = 1
  /\ lastStep = [kind |-> "none", ret |-> FALSE]
  /\ readableRanges \in MockProfiles
  /\ reads = 0
  /\ keyBundle = FALSE
  /\ devEncrypted = FALSE
  /\ device = NoDevice
  /\ ClientFresh
  /\ LibQuiet

NextMock ==
  \/ \E d \in Devices, ranges \in InputRanges : NewScanner(d, ranges)
  \/ Run
  \/ Abort
  \/ StepIdle
  \/ StepMock

SpecMock == InitMock /\ [][NextMock]_vars

\* the scenario of the subdivision test: registers 0..2 and 4..6 readable,
\* register 3 not, one scanner over [0, 7) on a device never scanned before
C14_Scenario ==
  /\ scanPc # "none"
  /\ scanRanges = << Range(0, 7) >>
  /\ readableRanges = << Range(0, 3), Range(4, 7) >>
  /\ priorStore[scanDevice] = << >>

\* C14: with registers 0..2 and 4..6 readable and 3 unreadable, scanning
\* [0, 7) never takes more than 1 + 2*ceil(log2 7) = 7 device reads, and once
\* no range is left the store holds exactly the entries 0..6, readable for
\* all but register 3.
C14_Bisection ==
  C14_Scenario
    => /\ reads <= 7
       /\ (remainingRanges = << >> /\ ~signalAborted)
            => /\ DOMAIN store[scanDevice] = 0 .. 6
               /\ \A r \in 0 .. 6 : store[scanDevice][r].readable <=> (r # 3)

\* the scenario ran to its end, by run(), and took all seven reads
C14_Witness ==
  /\ C14_Scenario
  /\ scanPc = "finished" /\ ~signalAborted
  /\ reads = 7
  /\ ~store[scanDevice][3].readable /\ store[scanDevice][6].readable

\* the registers this scanner is done with: those of the input ranges that
\* no pending range holds any more
Recorded == RegsOf(scanRanges) \ RegsOf(remainingRanges)

\* what a step() that read the device added to scannedRegisters'
Growth(st) ==
  IF st.kind = "read" THEN st.count
  ELSE IF st.kind = "unreadable" THEN 1 ELSE 0

\* C15: total is fixed at construction as the number of registers of the
\* input ranges; scanned never decreases, grows by n on a successful read of
\* n registers, by 1 on a single register recorded unreadable and not at all
\* on a split, always equals the number of registers the scanner has a
\* recorded result for, never exceeds total, and equals total once run()
\* has finished without an abort.
C15_Progress ==
  [][/\ scanPc # "none" => totalRegisters' = totalRegisters
     /\ scanPc' # "none" => totalRegisters' = Cardinality(RegsOf(scanRanges'))
     /\ scannedRegisters' >= scannedRegisters
     /\ scannedRegisters' - scannedRegisters
          = IF reads' # reads THEN Growth(lastStep') ELSE 0
     /\ scanPc' # "none"
          => /\ scannedRegisters' = Cardinality(Recorded')
             /\ \A r \in Recorded' : r \in DOMAIN store'[scanDevice']
             /\ scannedRegisters' <= totalRegisters'
     /\ (scanPc' = "finished" /\ ~signalAborted')
          => scannedRegisters' = totalRegisters']_vars

\* a run over two chunks that finished unaborted after reads, a split and a
\* single unreadable register, with the last progress event at total
C15_Witness ==
  /\ scanPc = "finished" /\ ~signalAborted
  /\ totalRegisters > MAX_REGISTERS_PER_REQUEST
  /\ scannedRegisters = totalRegisters
  /\ progress = << totalRegisters, totalRegisters >>
  /\ lastStep.kind = "unreadable"
  /\ reads > totalRegisters

\* C16: once the signal is aborted, nothing the scanner does pops a range,
\* reads the device, writes the store or changes scanned, and every step()
\* returns false at once; the persisted results and the pending ranges stay.
C16_AbortedStep ==
  [][(signalAborted /\ scanPc \in {"ready", "running"})
       => /\ UNCHANGED << remainingRanges, store, scannedRegisters, reads >>
          /\ lastStep' # lastStep
               => lastStep'.kind = "idle" /\ ~lastStep'.ret]_vars

\* step() has returned false on an aborted signal while ranges were pending
\* and results of earlier steps were in the store
C16_Witness ==
  /\ signalAborted
  /\ lastStep.kind = "idle"
  /\ remainingRanges # << >>
  /\ scannedRegisters > 0
  /\ store # priorStore

\* ------------------------------------------------------------------------
\* scanner.ts: calculatePendingRanges
\* ------------------------------------------------------------------------
\* scannedRegisters.findIndex((r) => r >= startRegister), 0-based, -1 if none
RECURSIVE FindIndex(_, _, _)
FindIndex(scanned, startRegister, idx) ==
  IF idx >= Len(scanned) THEN -1
  ELSE IF scanned[idx + 1] >= startRegister THEN idx
  ELSE FindIndex(scanned, startRegister, idx + 1)

\* the while loop: returns the ranges pushed and the final value of current
RECURSIVE PendingLoop(_, _, _, _, _)
PendingLoop(scanned, endRegister, idx, current, ranges) ==
  IF idx # -1 /\ idx < Len(scanned) /\ scanned[idx + 1] < endRegister
  THEN PendingLoop(scanned, endRegister, idx + 1, scanned[idx + 1] + 1,
                   IF scanned[idx + 1] > current
                   THEN ranges \o << Range(current, scanned[idx + 1]) >>
                   ELSE ranges)
  ELSE [ranges |-> ranges, current |-> current]

\* calculatePendingRanges without the final gap
calculatePendingRanges_NoFinalGap(startRegister, endRegister, scanned) ==
  PendingLoop(scanned, endRegister, FindIndex(scanned, startRegister, 0),
              startRegister, << >>).ranges

calculatePendingRanges(startRegister, endRegister, scanned) ==
  LET loop == PendingLoop(scanned, endRegister,
                          FindIndex(scanned, startRegister, 0),
                          startRegister, << >>)
  IN IF loop.current < endRegister
     THEN loop.ranges \o << Range(loop.current, endRegister) >>
     ELSE loop.ranges

\* ascending lists of register numbers: the keys of a set of registers in
\* order, as getScannedRegisters returns them
RECURSIVE Ascending(_)
Ascending(S) ==
  IF S = {} THEN << >>
  ELSE LET m == CHOOSE x \in S : \A y \in S : x <= y
       IN << m >> \o Ascending(S \ {m})

PendingInputs ==
  { [start |-> s, end |-> e, scanned |-> Ascending(S)] :
      s \in 0 .. MaxAddr, e \in 0 .. MaxAddr, S \in SUBSET (0 .. MaxAddr) }

InitPending ==
  /\ pendingArgs \in { a \in PendingInputs : a.start <= a.end }
  /\ pendingRanges = << >>
  /\ pendingPc = "ready"
  /\ AppQuiet
  /\ RtQuiet
  /\ HsQuiet
  /\ AesQuiet
  /\ RespQuiet
  /\ NotifyQuiet
  /\ MsgQuiet
  /\ InjQuiet

CalculatePendingRanges ==
  /\ pendingPc = "ready"
  /\ pendingRanges' = calculatePendingRanges(pendingArgs.start, pendingArgs.end,
                                             pendingArgs.scanned)
  /\ pendingPc' = "done"
  /\ UNCHANGED << pendingArgs, scanVars, clientVars, rtVars, hsVars,
                  deviceVars, aesVars, respVars, notifyVars,
                  msgVars, injVars >>

NextPending == CalculatePendingRanges

SpecPending == InitPending /\ [][NextPending]_vars

Elements(seq) == { seq[i] : i \in DOMAIN seq }

\* C17: for start <= end and an ascending list scanned, the returned ranges
\* are ascending, non-empty, inside [start, end), pairwise disjoint and not
\* adjacent, and their union is exactly the registers of [start, end) that
\* are not in scanned.
C17_PendingRanges ==
  pendingPc = "done"
    => LET r == pendingRanges
           a == pendingArgs
       IN /\ \A i \in DOMAIN r :
                r[i].start < r[i].end /\ a.start <= r[i].start /\ r[i].end <= a.end
          /\ \A i \in DOMAIN r : i < Len(r) => r[i].end < r[i + 1].start
          /\ UNION { r[i].start .. (r[i].end - 1) : i \in DOMAIN r }
               = { x \in a.start .. (a.end - 1) : x \notin Elements(a.scanned) }

\* a call that returned a gap before, between and after scanned registers,
\* with scanned registers on both sides of [start, end) as well
C17_Witness ==
  /\ pendingPc = "done"
  /\ Len(pendingRanges) >= 3
  /\ pendingRanges[1].start = pendingArgs.start
  /\ pendingRanges[Len(pendingRanges)].end = pendingArgs.end
  /\ \E x, y \in Elements(pendingArgs.scanned) :
        x < pendingArgs.start /\ y >= pendingArgs.end

\* ------------------------------------------------------------------------
\* MODBUS frames, the mock device's handler and memory, and the client's
\* validation of a response: writeRegisters followed by readRegisters
\* ------------------------------------------------------------------------
\* bitwise exclusive or of two 16-bit numbers
RECURSIVE Xor(_, _, _)
Xor(a, b, bits) ==
  IF bits = 0 THEN 0
  ELSE ((a + b) % 2) + 2 * Xor(a \div 2, b \div 2, bits - 1)

\* crc.ts: the inner loop, for (j = 0; j < 8; j++)
RECURSIVE CrcShift(_, _)
CrcShift(crc, j) ==
  IF j = 8 THEN crc
  ELSE IF crc % 2 = 1 THEN CrcShift(Xor(crc \div 2, 40961, 16), j + 1)
  ELSE CrcShift(crc \div 2, j + 1)

\* crc.ts: crc16 of the first n bytes of buffer (the outer loop)
RECURSIVE CrcUpTo(_, _)
CrcUpTo(buffer, n) ==
  IF n = 0 THEN 65535
  ELSE CrcShift(Xor(CrcUpTo(buffer, n - 1), buffer[n], 16), 0)

crc16(buffer) == CrcUpTo(buffer, Len(buffer))

\* the frame without its last two bytes: subarray(0, -2)
Body(frame) == SubSeq(frame, 1, Len(frame) - 2)

\* DataView.setUint16(_, x, false) and getUint16(off, false): big-endian
U16(x) == << (x \div 256) % 256, x % 256 >>
GetUint16(bytes, off) == bytes[off + 1] * 256 + bytes[off + 2]

\* addCrc, and the tail of the DeviceCommand constructor: CRC low byte first
addCrc(data) == data \o << crc16(data) % 256, (crc16(data) \div 256) % 256 >>

\* new DeviceCommand(functionCode, data).command
DeviceCommand(functionCode, data) == addCrc(<< 1, functionCode >> \o data)

\* new ReadHoldingRegisters(startingAddress, quantity).command
ReadHoldingRegisters(startingAddress, quantity) ==
  DeviceCommand(3, U16(startingAddress) \o U16(quantity))

\* new WriteHoldingRegisters(startingAddress, data).command, in the layout
\* handleWriteMultipleRegisters takes apart
WriteHoldingRegisters(startingAddress, data) ==
  DeviceCommand(16, U16(startingAddress) \o U16(Len(data) \div 2)
                      \o << Len(data) % 256 >> \o data)

\* validateCrc of the handler and isValidResponse of the client
validateCrc(data) ==
  crc16(Body(data)) = data[Len(data) - 1] + 256 * data[Len(data)]

isValidResponse(response) == Len(response) >= 3 /\ validateCrc(response)

isExceptionResponse(response, functionCode) ==
  Len(response) >= 2 /\ response[2] = functionCode + 128

\* ReadHoldingRegisters.parseResponse: response.slice(3, -2)
parseResponse(response) == SubSeq(response, 4, Len(response) - 2)

\* RegisterMemory.writeRegisters that takes the byte offset for the register
RECURSIVE memoryWriteRegisters_ByteOffset(_, _, _, _)
memoryWriteRegisters_ByteOffset(mem, startAddress, data, i) ==
  IF i >= Len(data) THEN mem
  ELSE memoryWriteRegisters_ByteOffset(
         ((startAddress + i) :> SubSeq(data, i + 1, i + 2)) @@ mem,
         startAddress, data, i + 2)

\* RegisterMemory.writeRegisters: for (i = 0; i < data.length; i += 2)
RECURSIVE memoryWriteRegisters(_, _, _, _)
memoryWriteRegisters(mem, startAddress, data, i) ==
  IF i >= Len(data) THEN mem
  ELSE memoryWriteRegisters(
         ((startAddress + (i \div 2)) :> SubSeq(data, i + 1, i + 2)) @@ mem,
         startAddress, data, i + 2)

\* RegisterMemory.readRegisters: zeros for a register never written
RECURSIVE memoryReadRegisters(_, _, _)
memoryReadRegisters(mem, start, count) ==
  IF count <= 0 THEN << >>
  ELSE (IF start \in DOMAIN mem THEN mem[start] ELSE << 0, 0 >>)
         \o memoryReadRegisters(mem, start + 1, count - 1)

\* the ranges the mock device is configured with
HandlerBase == 254
HandlerReadable == << Range(0, MaxAddr), Range(HandlerBase, HandlerBase + MaxAddr) >>
HandlerWritable == << Range(1, MaxAddr), Range(HandlerBase + 1, HandlerBase + MaxAddr) >>

isInAnyRange(address, ranges) ==
  \E i \in DOMAIN ranges : address >= ranges[i].start /\ address < ranges[i].end

generateExceptionResponse(deviceAddr, functionCode, exceptionCode) ==
  addCrc(<< deviceAddr, functionCode + 128, exceptionCode >>)

\* what handleCommand does: thrown (it throws), response, and the memory
Thrown(m) == [thrown |-> TRUE, response |-> << >>, mem |-> m]
Replied(r, m) == [thrown |-> FALSE, response |-> r, mem |-> m]

handleReadHoldingRegisters(deviceAddr, cmdBytes, mem) ==
  IF Len(cmdBytes) # 8 THEN Thrown(mem)
  ELSE LET startingAddr == GetUint16(cmdBytes, 2)
           quantity == GetUint16(cmdBytes, 4)
       IN IF \E i \in 0 .. (quantity - 1) :
                 ~isInAnyRange(startingAddr + i, HandlerReadable)
          THEN Replied(generateExceptionResponse(deviceAddr, 3, 2), mem)
          ELSE Replied(addCrc(<< deviceAddr, 3, (quantity * 2) % 256 >>
                                \o memoryReadRegisters(mem, startingAddr, quantity)),
                       mem)

handleWriteMultipleRegisters(deviceAddr, cmdBytes, mem) ==
  IF Len(cmdBytes) < 11 THEN Thrown(mem)
  ELSE LET startingAddr == GetUint16(cmdBytes, 2)
           quantity == GetUint16(cmdBytes, 4)
           byteCount == cmdBytes[7]
       IN IF byteCount # quantity * 2
          THEN Replied(generateExceptionResponse(deviceAddr, 16, 3), mem)
          ELSE IF Len(cmdBytes) # 7 + byteCount + 2 THEN Thrown(mem)
          ELSE IF \E i \in 0 .. (quantity - 1) :
                      ~isInAnyRange(startingAddr + i, HandlerWritable)
          THEN Replied(generateExceptionResponse(deviceAddr, 16, 2), mem)
          ELSE Replied(addCrc(<< deviceAddr, 16 >> \o U16(startingAddr)
                                \o U16(quantity)),
                       memoryWriteRegisters(mem, startingAddr,
                                            SubSeq(cmdBytes, 8, 7 + byteCount), 0))

handleCommand(cmdBytes, mem) ==
  IF Len(cmdBytes) < 4 THEN Thrown(mem)
  ELSE IF ~validateCrc(cmdBytes) THEN Thrown(mem)
  ELSE IF cmdBytes[2] = 3 THEN handleReadHoldingRegisters(cmdBytes[1], cmdBytes, mem)
  ELSE IF cmdBytes[2] = 16 THEN handleWriteMultipleRegisters(cmdBytes[1], cmdBytes, mem)
  ELSE Replied(generateExceptionResponse(cmdBytes[1], cmdBytes[2], 1), mem)

\* sendCommand on a connected, unencrypted, idle client whose device answers
\* at once: the error thrown, or "ok"
Outcome(reply, functionCode) ==
  IF reply.thrown THEN "Error"
  ELSE IF ~isValidResponse(reply.response) THEN "ChecksumError"
  ELSE IF isExceptionResponse(reply.response, functionCode) THEN "ModbusError"
  ELSE "ok"

\* register data: byte i of the pattern is seed + i
Pattern(seed, n) == [i \in 1 .. n |-> (seed + i) % 256]

RtData == { Pattern(seed, n) : seed \in {16, 250}, n \in {0, 2, 4, 6, 8, 10, 12} }
RtAddrs == Addrs \cup { HandlerBase + x : x \in Addrs }
RtMemories ==
  { << >>, [a \in 0 .. 2 |-> << 170, a >>],
    [a \in (HandlerBase + 2) .. (HandlerBase + 4) |-> << 187, 204 >>] }

InitRt ==
  /\ registers \in RtMemories
  /\ rtArgs \in [a : RtAddrs, data : RtData]
  /\ rtPc = "ready"
  /\ rtResult = << >>
  /\ AppQuiet
  /\ PendingQuiet
  /\ HsQuiet
  /\ AesQuiet
  /\ RespQuiet
  /\ NotifyQuiet
  /\ MsgQuiet
  /\ InjQuiet

\* client.writeRegisters(a, data)
WriteRegisters ==
  /\ rtPc = "ready"
  /\ LET command == WriteHoldingRegisters(rtArgs.a, rtArgs.data)
         reply == handleCommand(command, registers)
         outcome == Outcome(reply, 16)
     IN IF Len(command) > MAX_PACKET_SIZE
        THEN /\ rtPc' = "failed"
             /\ rtResult' = "PacketTooLarge"
             /\ UNCHANGED registers
        ELSE /\ registers' = reply.mem
             /\ rtPc' = IF outcome = "ok" THEN "written" ELSE "failed"
             /\ rtResult' = IF outcome = "ok" THEN << >> ELSE outcome
  /\ UNCHANGED << rtArgs, scanVars, clientVars, pendingVars, hsVars,
                  deviceVars, aesVars, respVars, notifyVars,
                  msgVars, injVars >>

\* client.readRegisters(a, data.length / 2)
ReadRegisters ==
  /\ rtPc = "written"
  /\ LET count == Len(rtArgs.data) \div 2
         command == ReadHoldingRegisters(rtArgs.a, count)
         reply == handleCommand(command, registers)
         outcome == Outcome(reply, 3)
     IN IF responseSize(count) > MAX_PACKET_SIZE
        THEN /\ rtPc' = "failed"
             /\ rtResult' = "PacketTooLarge"
        ELSE /\ rtPc' = IF outcome = "ok" THEN "read" ELSE "failed"
             /\ rtResult' = IF outcome = "ok" THEN parseResponse(reply.response)
                            ELSE outcome
  /\ UNCHANGED << registers, rtArgs, scanVars, clientVars, pendingVars, hsVars,
                  deviceVars, aesVars, respVars, notifyVars,
                  msgVars, injVars >>

NextRt == WriteRegisters \/ ReadRegisters

SpecRt == InitRt /\ [][NextRt]_vars

\* every register of the round trip is writable and readable
RtInRange ==
  \A i \in 0 .. ((Len(rtArgs.data) \div 2) - 1) :
     /\ isInAnyRange(rtArgs.a + i, HandlerWritable)
     /\ isInAnyRange(rtArgs.a + i, HandlerReadable)

\* the two calls are over, or the first one failed
RtOver == rtPc \in {"read", "failed"}

\* C12 as stated: for every non-empty even-length D with |D| <= 12 on
\* writable and readable registers, writeRegisters(a, D) followed by
\* readRegisters(a, |D|/2) returns D.
C12_RoundTrip ==
  (RtOver /\ RtInRange /\ Len(rtArgs.data) >= 2 /\ Len(rtArgs.data) <= 12)
    => rtPc = "read" /\ rtResult = rtArgs.data

\* C12: for every even-length D with 2 <= |D| <= 10 on writable and
\* readable registers, writeRegisters(a, D) followed by
\* readRegisters(a, |D|/2) returns D; a D of 12 bytes makes a command of 21
\* bytes, which writeRegisters refuses before it writes anything.
C12_RoundTripFits ==
  /\ (RtOver /\ RtInRange /\ Len(rtArgs.data) >= 2 /\ Len(rtArgs.data) <= 10)
       => rtPc = "read" /\ rtResult = rtArgs.data
  /\ (RtOver /\ Len(rtArgs.data) = 12)
       => rtPc = "failed" /\ rtResult = "PacketTooLarge"

\* ten bytes written across the 255/256 address boundary over older values
\* and read back
C12_Witness ==
  /\ rtPc = "read"
  /\ Len(rtArgs.data) = 10
  /\ rtArgs.a = HandlerBase + 1
  /\ rtResult = rtArgs.data
  /\ registers # << >> /\ rtArgs.a + 1 \in DOMAIN registers

\* ------------------------------------------------------------------------
\* handshake.ts: two HandshakeProtocol objects, one per role, handing each
\* other what handle() returns.  Keys and digests are symbolic: a challenge
\* is a number, md5 of it is the IV named by that number, an AES key is the
\* pair (IV, shared secret) it is XORed from, an ephemeral key pair is a
\* number, a signature names the signing key and the data signed, and a key
\* derived by ECDH is the set of the two key pairs it is derived from.
\* ------------------------------------------------------------------------
NullKey == [iv |-> 0, secret |-> "none"]
NullSig == [by |-> "none", pub |-> 0, iv |-> 0]
Plain == [key |-> NullKey, iv |-> 0]

\* new HandshakeProtocol(keyBundle)
NewProtocol == [aesKey |-> NullKey, aesIv |-> 0, ephemeralKeyPair |-> 0,
                peerPublicKey |-> 0, sessionAesKey |-> {}]

\* HandshakeMessage(state, body); a body holds a number (challenge, response
\* or status byte) or a public key with its signature
Message(state, n, pub, sig) == [state |-> state, n |-> n, pub |-> pub, sig |-> sig]

\* get isComplete
hsIsComplete(p) == p.sessionAesKey # {}

\* this._aesIv.slice(8, 12) as a number of its own
IvPart(iv) == 100 + iv

\* _setAesKey(challenge)
setAesKey(p, bundle, challenge) ==
  [p EXCEPT !.aesIv = challenge,
            !.aesKey = [iv |-> challenge, secret |-> bundle.sharedSecret]]

\* _signPublicKey(): the public key and the signature over key and IV
signPublicKey(p, bundle) ==
  Message(0, 0, p.ephemeralKeyPair,
          [by |-> bundle.signingKey, pub |-> p.ephemeralKeyPair, iv |-> p.aesIv])

\* a _verifyPublicKey that takes the signature of any signer
verifyPublicKey_AnySigner(p, bundle, m) ==
  /\ m.sig # NullSig
  /\ p.aesIv # 0
  /\ m.sig.pub = m.pub
  /\ m.sig.iv = p.aesIv

\* _verifyPublicKey(): a body of 128 bytes (a key and a signature), and
\* crypto.subtle.verify with the bundle's verifyKey over the key and the IV
\* (signingData.set(this._aesIv) throws while there is no IV)
verifyPublicKey(p, bundle, m) ==
  /\ m.sig # NullSig
  /\ p.aesIv # 0
  /\ m.sig.by = bundle.verifyKey
  /\ m.sig.pub = m.pub
  /\ m.sig.iv = p.aesIv

\* a key derivation that ignores the own key pair
deriveKey_PeerOnly(peerPublicKey, ephemeralKeyPair) == { peerPublicKey }

\* crypto.subtle.deriveKey({ name: "ECDH", public }, privateKey, ...)
deriveKey(peerPublicKey, ephemeralKeyPair) == { peerPublicKey, ephemeralKeyPair }

\* _setSessionKey()
setSessionKey(p) ==
  [p EXCEPT !.sessionAesKey = deriveKey(p.peerPublicKey, p.ephemeralKeyPair)]

\* the test at the head and at the tail of handle(): challenge-round
\* encryption is in use once the ephemeral keys and the AES key exist
UsesAes(p) == p.ephemeralKeyPair # 0 /\ p.aesKey # NullKey /\ p.aesIv # 0

\* what handle() returns: threw, the object, and the reply (state 0 = null)
HsThrew(p) == [threw |-> TRUE, proto |-> p, reply |-> Message(0, 0, 0, NullSig)]
HsReturn(p, m) == [threw |-> FALSE, proto |-> p, reply |-> m]

\* handle(null): the challenge first, the server public key afterwards
handleNull(p, bundle, challenge, keyPair) ==
  IF p.aesKey = NullKey
  THEN HsReturn(setAesKey(p, bundle, challenge), Message(1, challenge, 0, NullSig))
  ELSE LET q == [p EXCEPT !.ephemeralKeyPair = keyPair]
       IN HsReturn(q, [signPublicKey(q, bundle) EXCEPT !.state = 4])

\* the switch without the test of the body of CHALLENGE_ACCEPTED and of
\* ECDH_ACCEPTED
handleMessage_NoBodyCheck(p, bundle, m, keyPair) ==
  IF m.state = 1
  THEN LET q == setAesKey(p, bundle, m.n)
       IN HsReturn(q, Message(2, IvPart(q.aesIv), 0, NullSig))
  ELSE IF m.state = 2
  THEN IF p.aesIv = 0 THEN HsThrew(p)
       ELSE HsReturn(p, Message(3, IF m.n = IvPart(p.aesIv) THEN 0 ELSE 1,
                                0, NullSig))
  ELSE IF m.state = 3
  THEN HsReturn([p EXCEPT !.ephemeralKeyPair = keyPair],
                Message(0, 0, 0, NullSig))
  ELSE IF m.state = 4
  THEN IF ~verifyPublicKey(p, bundle, m) THEN HsThrew(p)
       ELSE LET q == [p EXCEPT !.peerPublicKey = m.pub]
            IN IF q.ephemeralKeyPair = 0 THEN HsThrew(q)
               ELSE HsReturn(q, [signPublicKey(q, bundle) EXCEPT !.state = 5])
  ELSE IF m.state = 5
  THEN IF ~verifyPublicKey(p, bundle, m) THEN HsThrew(p)
       ELSE LET q == [p EXCEPT !.peerPublicKey = m.pub]
            IN IF q.ephemeralKeyPair = 0 THEN HsThrew(q)
               ELSE HsReturn(setSessionKey(q), Message(6, 0, 0, NullSig))
  ELSE IF p.peerPublicKey = 0 \/ p.ephemeralKeyPair = 0
       THEN HsThrew(p)
       ELSE HsReturn(setSessionKey(p), Message(0, 0, 0, NullSig))

\* the switch of handle(data) on the state of the parsed message
handleMessage(p, bundle, m, keyPair) ==
  IF m.state = 1
  THEN LET q == setAesKey(p, bundle, m.n)
       IN HsReturn(q, Message(2, IvPart(q.aesIv), 0, NullSig))
  ELSE IF m.state = 2
  THEN IF p.aesIv = 0 THEN HsThrew(p)
       ELSE HsReturn(p, Message(3, IF m.n = IvPart(p.aesIv) THEN 0 ELSE 1,
                                0, NullSig))
  ELSE IF m.state = 3
  THEN IF m.n # 0 THEN HsThrew(p)
       ELSE HsReturn([p EXCEPT !.ephemeralKeyPair = keyPair],
                     Message(0, 0, 0, NullSig))
  ELSE IF m.state = 4
  THEN IF ~verifyPublicKey(p, bundle, m) THEN HsThrew(p)
       ELSE LET q == [p EXCEPT !.peerPublicKey = m.pub]
            IN IF q.ephemeralKeyPair = 0 THEN HsThrew(q)
               ELSE HsReturn(q, [signPublicKey(q, bundle) EXCEPT !.state = 5])
  ELSE IF m.state = 5
  THEN IF ~verifyPublicKey(p, bundle, m) THEN HsThrew(p)
       ELSE LET q == [p EXCEPT !.peerPublicKey = m.pub]
            IN IF q.ephemeralKeyPair = 0 THEN HsThrew(q)
               ELSE HsReturn(setSessionKey(q), Message(6, 0, 0, NullSig))
  ELSE IF m.n # 0 \/ p.peerPublicKey = 0 \/ p.ephemeralKeyPair = 0
       THEN HsThrew(p)
       ELSE HsReturn(setSessionKey(p), Message(0, 0, 0, NullSig))

\* the bytes on the wire: the message and the key and IV it is encrypted
\* with (Plain: toBytes() as it is)
Wire(to, m, by) == [to |-> to, msg |-> m, by |-> by]
NoWire == Wire("none", Message(0, 0, 0, NullSig), Plain)
AesOf(p) == IF UsesAes(p) THEN [key |-> p.aesKey, iv |-> p.aesIv] ELSE Plain

\* handle(data): aesDecrypt with the own key and IV when they are in use,
\* then HandshakeMessage.parse, which throws on anything but the bytes of a
\* message: a frame encrypted otherwise than expected does not parse
handleData(p, bundle, wire, keyPair) ==
  IF wire.by # AesOf(p) THEN HsThrew(p)
  ELSE handleMessage(p, bundle, wire.msg, keyPair)

Other(side) == IF side = "client" THEN "server" ELSE "client"

\* the outcome r of a handle() call by side on a message of state inState
HsAfter(side, inState, r) ==
  /\ hsProto' = [hsProto EXCEPT ![side] = r.proto]
  /\ hsPc' = IF r.threw THEN "failed" ELSE "run"
  /\ hsWire' = IF r.threw \/ r.reply.state = 0 THEN NoWire
               ELSE Wire(Other(side), r.reply, AesOf(r.proto))
  /\ hsTrace' = Append(hsTrace, << side, inState,
                                  IF r.threw THEN -1 ELSE r.reply.state >>)
  /\ hsSent' = Append(hsSent, r.reply)
  /\ UNCHANGED << hsBundles, scanVars, clientVars, pendingVars, rtVars,
                  deviceVars, aesVars, respVars, notifyVars,
                  msgVars, injVars >>

\* serverProtocol.handle(null), when nothing is on its way
HsServerNull(challenge, keyPair) ==
  /\ hsPc = "run"
  /\ hsWire.to = "none"
  /\ ~hsIsComplete(hsProto["server"])
  /\ HsAfter("server", 0,
             handleNull(hsProto["server"], hsBundles["server"], challenge, keyPair))

\* the protocol the bytes are for handles them
HsHandle(side, keyPair) ==
  /\ hsPc = "run"
  /\ hsWire.to = side
  /\ HsAfter(side, hsWire.msg.state,
             handleData(hsProto[side], hsBundles[side], hsWire, keyPair))

Challenges == {1, 2}
KeyPairs == {1, 2, 3}

\* createTestKeyBundles(), and bundles that do not match
HsMatching ==
  [client |-> [signingKey |-> "clientKey", verifyKey |-> "serverKey",
               sharedSecret |-> "secret"],
   server |-> [signingKey |-> "serverKey", verifyKey |-> "clientKey",
               sharedSecret |-> "secret"]]

HsBundleSets ==
  { HsMatching,
    [HsMatching EXCEPT !["client"].sharedSecret = "other"],
    [HsMatching EXCEPT !["client"].verifyKey = "otherKey"],
    [HsMatching EXCEPT !["server"].verifyKey = "otherKey"] }

InitHs ==
  /\ hsBundles \in HsBundleSets
  /\ hsProto = [side \in {"client", "server"} |-> NewProtocol]
  /\ hsWire = NoWire
  /\ hsTrace = << >>
  /\ hsSent = << >>
  /\ hsPc = "run"
  /\ AppQuiet
  /\ PendingQuiet
  /\ RtQuiet
  /\ AesQuiet
  /\ RespQuiet
  /\ NotifyQuiet
  /\ MsgQuiet
  /\ InjQuiet

NextHs ==
  \/ \E challenge \in Challenges, keyPair \in KeyPairs :
        HsServerNull(challenge, keyPair)
  \/ \E side \in {"client", "server"}, keyPair \in KeyPairs :
        HsHandle(side, keyPair)

SpecHs == InitHs /\ [][NextHs]_vars

\* the eight handle() calls of a complete handshake: the server sends states
\* 1, 3, 4 and 6, the client answers 1 with 2 and 4 with 5 and returns null
\* on 3 and 6
HsFlow ==
  << << "server", 0, 1 >>, << "client", 1, 2 >>, << "server", 2, 3 >>,
     << "client", 3, 0 >>, << "server", 0, 4 >>, << "client", 4, 5 >>,
     << "server", 5, 6 >>, << "client", 6, 0 >> >>

\* C13: with matching key bundles no handle() call throws, the calls follow
\* messages 1 to 6 in order and go on until both sides are complete; the
\* client returns null on states 3 and 6; the server is complete exactly
\* once it has handled state 5 and the client exactly once it has handled
\* state 6; and both then hold the same session key.
C13_HandshakeSymmetry ==
  hsBundles = HsMatching
    => /\ hsPc = "run"
       /\ Len(hsTrace) <= Len(HsFlow)
       /\ hsTrace = SubSeq(HsFlow, 1, Len(hsTrace))
       /\ Len(hsTrace) < Len(HsFlow) => ENABLED NextHs
       /\ hsIsComplete(hsProto["server"]) <=> Len(hsTrace) >= 7
       /\ hsIsComplete(hsProto["client"]) <=> Len(hsTrace) >= 8
       /\ (hsIsComplete(hsProto["server"]) /\ hsIsComplete(hsProto["client"]))
            => hsProto["server"].sessionAesKey = hsProto["client"].sessionAesKey

\* a complete handshake between matching bundles with two different
\* ephemeral key pairs
C13_Witness ==
  /\ hsBundles = HsMatching
  /\ Len(hsTrace) = 8
  /\ hsIsComplete(hsProto["server"]) /\ hsIsComplete(hsProto["client"])
  /\ hsProto["server"].ephemeralKeyPair # hsProto["client"].ephemeralKeyPair
  /\ Cardinality(hsProto["client"].sessionAesKey) = 2

\* ------------------------------------------------------------------------
\* C18: a step in which the GATT server goes from connected to disconnected
\* (client.disconnect() or the OS) leaves isConnected and isEncrypted false,
\* no notification listener, neither characteristic, no pending response
\* promise and no HandshakeProtocol, and the same device id and name.
\* ------------------------------------------------------------------------
C18_DisconnectClears ==
  [][ (connected /\ ~connected')
        => /\ ~isConnected' /\ ~isEncrypted'
           /\ ~notifyCharacteristic' /\ ~writeCharacteristic'
           /\ responsePromise' = 0
           /\ handshakeProtocol' = 0
           /\ id' = id /\ deviceName' = deviceName ]_vars

\* a named device was disconnected after a completed handshake: the
\* protocol object that reached its session key is no longer the client's
C18_Witness ==
  /\ ~connected
  /\ deviceName = "AC300Test"
  /\ handshakeProtocol = 0
  /\ \E c \in Calls : hpState[c] = "done"

\* ------------------------------------------------------------------------
\* aes.ts: aesEncrypt and aesDecrypt on bytes.  AES is a keyed permutation
\* of 16-byte blocks; the model takes one such permutation (rotate the
\* block by one byte and add the key byte by byte) and builds CBC and
\* PKCS#7 on it as crypto.subtle does.  md5 is a fixed function from the
\* seed to 16 bytes.
\* ------------------------------------------------------------------------
AES_BLOCK == 16

\* the number of lengths the two header bytes can tell apart
HeaderRange == 65536

XorBlock(x, y) == [j \in 1 .. AES_BLOCK |-> Xor(x[j], y[j], 8)]

\* the block cipher and its inverse
EncryptBlock(k, b) ==
  [j \in 1 .. AES_BLOCK |-> (b[(j % AES_BLOCK) + 1] + k[j]) % 256]

DecryptBlock(k, c) ==
  [j \in 1 .. AES_BLOCK |->
     LET i == ((j + AES_BLOCK - 2) % AES_BLOCK) + 1
     IN (c[i] - k[i] + 256) % 256]

Pkcs7Pad(p) ==
  LET v == AES_BLOCK - (Len(p) % AES_BLOCK)
  IN p \o [j \in 1 .. v |-> v]

BlockAt(s, i) == SubSeq(s, AES_BLOCK * (i - 1) + 1, AES_BLOCK * i)

\* CBC over blocks from .. to: each block is XORed with the cipher block
\* before it (prev for the first) and encrypted; the run is cut in halves so
\* that the depth of the evaluation stays small
RECURSIVE CbcEncryptRun(_, _, _, _, _)
CbcEncryptRun(k, padded, from, to, prev) ==
  IF from > to THEN << >>
  ELSE IF from = to
  THEN EncryptBlock(k, XorBlock(BlockAt(padded, from), prev))
  ELSE LET mid == (from + to) \div 2
           left == CbcEncryptRun(k, padded, from, mid, prev)
       IN left \o CbcEncryptRun(k, padded, mid + 1, to,
                                SubSeq(left, Len(left) - AES_BLOCK + 1, Len(left)))

\* crypto.subtle.encrypt({ name: "AES-CBC", iv }, key, data)
CbcEncrypt(k, iv, p) ==
  LET padded == Pkcs7Pad(p)
  IN CbcEncryptRun(k, padded, 1, Len(padded) \div AES_BLOCK, iv)

AesThrown == [threw |-> TRUE, bytes |-> << >>]
AesReturned(b) == [threw |-> FALSE, bytes |-> b]

\* crypto.subtle.decrypt({ name: "AES-CBC", iv }, key, data): throws unless
\* the data are whole blocks that end in PKCS#7 padding
CbcDecrypt(k, iv, c) ==
  IF Len(iv) # AES_BLOCK \/ Len(c) = 0 \/ Len(c) % AES_BLOCK # 0
  THEN AesThrown
  ELSE LET blocks == [i \in 1 .. (Len(c) \div AES_BLOCK) |->
                        XorBlock(DecryptBlock(k, BlockAt(c, i)),
                                 IF i = 1 THEN iv ELSE BlockAt(c, i - 1))]
           raw == [j \in 1 .. Len(c) |->
                     blocks[((j - 1) \div AES_BLOCK) + 1][((j - 1) % AES_BLOCK) + 1]]
           v == raw[Len(raw)]
       IN IF v < 1 \/ v > AES_BLOCK
             \/ \E j \in (Len(raw) - v + 1) .. Len(raw) : raw[j] # v
          THEN AesThrown
          ELSE AesReturned(SubSeq(raw, 1, Len(raw) - v))

md5(seed) ==
  [j \in 1 .. AES_BLOCK |-> (seed[((j - 1) % Len(seed)) + 1] * 31 + j * 17 + 5) % 256]

\* result[0] = (data.length >> 8) & 0xff; result[1] = data.length & 0xff
LengthHeader(n) == << (n \div 256) % 256, n % 256 >>

\* aesEncrypt(data, aesKey, iv?), ivSeed being crypto.getRandomValues
aesEncrypt(data, aesKey, iv, ivSeed) ==
  LET actualIv == IF iv # << >> THEN iv ELSE md5(ivSeed)
      encrypted == CbcEncrypt(aesKey, actualIv, data)
  IN LengthHeader(Len(data)) \o (IF iv # << >> THEN << >> ELSE ivSeed) \o encrypted

\* a decryption that returns all the primitive gives, not the recorded length
aesDecrypt_NoSlice(data, aesKey, iv) ==
  IF Len(data) < 2 THEN AesThrown
  ELSE LET actualIv == IF iv = << >> THEN md5(Slice(data, 2, 6)) ELSE iv
           encrypted == IF iv = << >> THEN Slice(data, 6, Len(data))
                        ELSE Slice(data, 2, Len(data))
           lastBlock == Slice(data, IF Len(data) > AES_BLOCK
                                    THEN Len(data) - AES_BLOCK ELSE 0, Len(data))
       IN IF Len(lastBlock) # AES_BLOCK \/ (iv = << >> /\ Len(data) < 6)
          THEN AesThrown
          ELSE CbcDecrypt(aesKey, actualIv,
                          encrypted \o SubSeq(CbcEncrypt(aesKey, lastBlock,
                                                 [j \in 1 .. AES_BLOCK |-> AES_BLOCK]),
                                              1, AES_BLOCK))

\* aesDecrypt(data, aesKey, iv?)
aesDecrypt(data, aesKey, iv) ==
  IF Len(data) < 2 THEN AesThrown
  ELSE LET dataLen == data[1] * 256 + data[2]
           actualIv == IF iv = << >> THEN md5(Slice(data, 2, 6)) ELSE iv
           encrypted == IF iv = << >> THEN Slice(data, 6, Len(data))
                        ELSE Slice(data, 2, Len(data))
           lastBlock == Slice(data, IF Len(data) > AES_BLOCK
                                    THEN Len(data) - AES_BLOCK ELSE 0, Len(data))
       IN IF Len(lastBlock) # AES_BLOCK \/ (iv = << >> /\ Len(data) < 6)
          THEN AesThrown
          ELSE LET paddingBlock ==
                     SubSeq(CbcEncrypt(aesKey, lastBlock,
                                       [j \in 1 .. AES_BLOCK |-> AES_BLOCK]),
                            1, AES_BLOCK)
                   decrypted == CbcDecrypt(aesKey, actualIv, encrypted \o paddingBlock)
               IN IF decrypted.threw THEN AesThrown
                  ELSE AesReturned(Slice(decrypted.bytes, 0, dataLen))

\* n bytes: byte i is i * a + b
Bytes(n, a, b) == [i \in 1 .. n |-> (i * a + b) % 256]

\* plaintexts of no byte, of less than a block, of whole blocks and of more,
\* some of them made of the padding byte; and one too long for the header
AesLengths == {0, 1, 15, 16, 17, 31, 32, 33}

AesInputs ==
  { [n |-> n, a |-> pat[1], b |-> pat[2], k |-> Bytes(AES_BLOCK, k, 1),
     iv |-> iv, seed |-> seed] :
      n \in AesLengths, pat \in { << 7, 3 >>, << 0, 16 >> }, k \in {11, 13},
      iv \in { << >>, Bytes(AES_BLOCK, 5, 9) },
      seed \in { << 1, 2, 3, 4 >>, << 200, 0, 16, 255 >> } }
  \cup
  { [n |-> HeaderRange, a |-> 7, b |-> 3, k |-> Bytes(AES_BLOCK, 11, 1),
     iv |-> iv, seed |-> << 1, 2, 3, 4 >>] :
      iv \in { << >>, Bytes(AES_BLOCK, 5, 9) } }

\* the plaintext of the call
AesPlaintext == Bytes(aesArgs.n, aesArgs.a, aesArgs.b)

InitAes ==
  /\ aesArgs \in AesInputs
  /\ aesFrame = << >>
  /\ aesOut = << >>
  /\ aesPc = "ready"
  /\ AppQuiet
  /\ PendingQuiet
  /\ RtQuiet
  /\ HsQuiet
  /\ RespQuiet
  /\ NotifyQuiet
  /\ MsgQuiet
  /\ InjQuiet

AesEncrypt ==
  /\ aesPc = "ready"
  /\ aesFrame' = aesEncrypt(AesPlaintext, aesArgs.k, aesArgs.iv, aesArgs.seed)
  /\ aesPc' = "encrypted"
  /\ UNCHANGED << aesArgs, aesOut, scanVars, clientVars, pendingVars, rtVars,
                  hsVars, deviceVars, respVars, notifyVars,
                  msgVars, injVars >>

AesDecrypt ==
  /\ aesPc = "encrypted"
  /\ aesOut' = aesDecrypt(aesFrame, aesArgs.k, aesArgs.iv)
  /\ aesPc' = "decrypted"
  /\ UNCHANGED << aesArgs, aesFrame, scanVars, clientVars, pendingVars, rtVars,
                  hsVars, deviceVars, respVars, notifyVars,
                  msgVars, injVars >>

NextAes == AesEncrypt \/ AesDecrypt

SpecAes == InitAes /\ [][NextAes]_vars

\* the parts of the frame aesEncrypt returned
AesRecordedLength == aesFrame[1] * 256 + aesFrame[2]
AesCiphertextLength == Len(aesFrame) - (IF aesArgs.iv = << >> THEN 6 ELSE 2)

\* C19: whatever the plaintext, the key and the IV or its absence, the frame
\* of aesEncrypt records the length of the plaintext in its two header
\* bytes, its ciphertext is whole 16-byte blocks of at least that length,
\* and aesDecrypt of the frame with the same key and IV returns the
\* plaintext.
C19_RoundTrip ==
  /\ aesPc \in {"encrypted", "decrypted"}
       => /\ AesRecordedLength = Len(AesPlaintext)
          /\ AesCiphertextLength % AES_BLOCK = 0
          /\ AesCiphertextLength >= Len(AesPlaintext)
  /\ aesPc = "decrypted" => aesOut = AesReturned(AesPlaintext)

\* C19, for the plaintexts whose length fits the two header bytes: a
\* plaintext of less than 65536 bytes is recorded with its length in a frame
\* of whole blocks at least as long, and comes back from aesDecrypt.
C19_RoundTripInHeaderRange ==
  aesArgs.n < HeaderRange => C19_RoundTrip

\* a plaintext of whole blocks made of the padding byte came back, with a
\* seeded IV
C19_Witness ==
  /\ aesPc = "decrypted"
  /\ Len(AesPlaintext) = 32
  /\ AesPlaintext[32] = 16
  /\ aesArgs.iv = << >>
  /\ aesOut = AesReturned(AesPlaintext)

\* ------------------------------------------------------------------------
\* C20: the payload a successful request returns is the device's answer to
\* the frame of that very request, never the late answer to an earlier
\* request that had already timed out.
\* ------------------------------------------------------------------------
C20_OwnResponse ==
  (last.kind = "cmd" /\ last.result = "ok") => last.data = last.id

\* a request made on an established connection, after another request had
\* timed out waiting for its response, returned successfully with the answer
\* to that other request's frame
C20_Witness ==
  /\ last.kind = "cmd"
  /\ last.result = "ok"
  /\ last.data # last.id
  /\ ~last.detached
  /\ timedOut
  /\ \A c \in Calls : call[c].pc \in {"idle", "done"}

\* ------------------------------------------------------------------------
\* C21: while the link stays up, the slot a request installed is emptied
\* only by a step of that request (its response resolves it, or it returns):
\* the cleanup of another request never empties it.
\* ------------------------------------------------------------------------
C21_SlotOwner ==
  [][ \A c \in Calls :
        (responsePromise = c /\ responsePromise' # c /\ connected')
          => call'[c] # call[c] ]_vars

\* a request waits for its response on a live link with the slot empty, after
\* a request that had waited through a disconnect returned with its timeout
C21_Witness ==
  /\ connected /\ isConnected
  /\ responsePromise = 0
  /\ last.kind = "cmd" /\ last.result = "Timeout" /\ last.at = "wait"
  /\ \E c \in Calls : call[c].pc = "wait" /\ c # last.id /\ call[c].detached

\* ------------------------------------------------------------------------
\* C22: when a call fails or times out inside connectInternal (at any of its
\* suspension points, detectAndHandleEncryption included) and no other call
\* is under way, the client is detached: isConnected is false and no
\* unfinished HandshakeProtocol is attached.
\* ------------------------------------------------------------------------
ConnectPcs == {"c_gatt", "c_svc", "c_wc", "c_nc", "c_start", "det",
               "hs_handle", "hs_write", "hs_key"}

C22_FailedConnectDetaches ==
  (/\ last.result \in {"Timeout", "Error"}
   /\ last.at \in ConnectPcs
   /\ Active = {})
    => /\ ~isConnected
       /\ handshakeProtocol = 0 \/ hpState[handshakeProtocol] = "done"

\* a connect timed out waiting for the session key on a live link and left
\* both characteristics and its unfinished handshake behind
C22_Witness ==
  /\ last.kind = "connect" /\ last.result = "Timeout" /\ last.at = "hs_key"
  /\ Active = {}
  /\ connected /\ isConnected
  /\ handshakeProtocol = last.id /\ hpState[handshakeProtocol] # "done"

\* ------------------------------------------------------------------------
\* sendCommand lines 338-347 on the response to a ReadHoldingRegisters
\* command: the bytes the response promise resolved with are validated and
\* parsed.  The responses are those a device can send: the answer to the
\* read, answers of other sizes and to other commands, exception responses
\* to this and to another function code, each also with its last byte
\* inverted, and frames cut short.
\* ------------------------------------------------------------------------
RsThrew(kind, code) == [kind |-> kind, code |-> code, data |-> << >>]
RsReturned(data) == [kind |-> "ok", code |-> 0, data |-> data]

\* a validation that looks at the exception bit before the CRC
ValidateResponse_ExceptionFirst(response, functionCode) ==
  IF Len(response) >= 3 /\ isExceptionResponse(response, functionCode)
  THEN RsThrew("ModbusError", response[3])
  ELSE IF ~isValidResponse(response) THEN RsThrew("ChecksumError", 0)
  ELSE RsReturned(parseResponse(response))

\* if (!isValidResponse) throw ChecksumError; else if (isExceptionResponse)
\* throw ModbusError(getExceptionCode); return parseResponse(response)
ValidateResponse(response, functionCode) ==
  IF ~isValidResponse(response) THEN RsThrew("ChecksumError", 0)
  ELSE IF isExceptionResponse(response, functionCode)
  THEN RsThrew("ModbusError", response[3])
  ELSE RsReturned(parseResponse(response))

\* FailureInjector.shouldCorruptCrc: response[length - 1] ^= 0xff
CorruptCrc(response) ==
  [response EXCEPT ![Len(response)] = 255 - response[Len(response)]]

\* the answer of a device to a read of n registers
ReadResponse(n) == addCrc(<< 1, 3, 2 * n >> \o Pattern(16, 2 * n))

RsCounts == {1, 2, MAX_REGISTERS_PER_REQUEST}

RsWellFormed ==
  { ReadResponse(n) : n \in 0 .. MAX_REGISTERS_PER_REQUEST }
  \cup { addCrc(<< 1, 16 >> \o U16(50) \o U16(n)) : n \in 1 .. 2 }
  \cup { addCrc(<< 1, 6, 0, 50, 171, 205 >>) }
  \cup { generateExceptionResponse(1, fc, code) :
           fc \in {3, 6, 16}, code \in 1 .. 3 }

RsResponses ==
  RsWellFormed
  \cup { CorruptCrc(r) : r \in RsWellFormed }
  \cup { << >>, << 1 >>, << 1, 131 >>, << 1, 131, 2 >>, << 1, 3, 2 >> }

InitResp ==
  /\ rsArgs \in [count : RsCounts, response : RsResponses]
  /\ rsResult = << >>
  /\ rsPc = "waiting"
  /\ NotifyQuiet
  /\ MsgQuiet
  /\ InjQuiet
  /\ AppQuiet
  /\ PendingQuiet
  /\ RtQuiet
  /\ HsQuiet
  /\ AesQuiet

\* the response promise of readRegisters(_, count) resolves
ResponseArrives ==
  /\ rsPc = "waiting"
  /\ rsResult' = ValidateResponse(rsArgs.response, 3)
  /\ rsPc' = "returned"
  /\ UNCHANGED << rsArgs, scanVars, clientVars, pendingVars, rtVars, hsVars,
                  deviceVars, aesVars, notifyVars,
                  msgVars, injVars >>

NextResp == ResponseArrives

SpecResp == InitResp /\ [][NextResp]_vars

\* the response has a valid CRC
RsCrcValid == Len(rsArgs.response) >= 3 /\ validateCrc(rsArgs.response)

\* C25: a response with a valid CRC and no exception bit whose function
\* code is not the request's or whose length is not 2 * count + 5 makes the
\* read fail with ChecksumError.
C25_WrongFrameRejected ==
  (/\ rsPc = "returned"
   /\ RsCrcValid
   /\ rsArgs.response[2] < 128
   /\ \/ rsArgs.response[2] # 3
      \/ Len(rsArgs.response) # responseSize(rsArgs.count))
    => rsResult.kind = "ChecksumError"

\* a read of one register returned the payload of an answer carrying two
C25_Witness ==
  /\ rsPc = "returned"
  /\ rsArgs.count = 1
  /\ rsArgs.response = ReadResponse(2)
  /\ rsResult = RsReturned(Pattern(16, 4))

\* C26: a response with a valid CRC whose function byte has the exception
\* bit set makes the request fail with ModbusError carrying response byte 2
\* as its code, whatever the function code under the bit.
C26_ExceptionBit ==
  (rsPc = "returned" /\ RsCrcValid /\ rsArgs.response[2] >= 128)
    => rsResult = RsThrew("ModbusError", rsArgs.response[3])

\* the exception response to a write (function byte 0x90) came back from a
\* read as register data
C26_Witness ==
  /\ rsPc = "returned"
  /\ rsArgs.response = generateExceptionResponse(1, 16, 2)
  /\ rsResult.kind = "ok"

\* C27: a response shorter than 3 bytes or with a CRC mismatch fails with
\* ChecksumError whatever its function byte, and a ModbusError is raised
\* only from a response with a valid CRC.
C27_CrcFirst ==
  rsPc = "returned"
    => /\ ~RsCrcValid => rsResult = RsThrew("ChecksumError", 0)
       /\ rsResult.kind = "ModbusError" => RsCrcValid

\* an exception response to the read with its CRC corrupted failed with
\* ChecksumError
C27_Witness ==
  /\ rsPc = "returned"
  /\ rsArgs.response = CorruptCrc(generateExceptionResponse(1, 3, 2))
  /\ rsResult.kind = "ChecksumError"

\* ------------------------------------------------------------------------
\* C24: on a client that has a key bundle, handleNotification hands every
\* handshake notification either to the detection promise or to the attached,
\* unfinished HandshakeProtocol.
\* ------------------------------------------------------------------------
HsTypes == {"H1", "H2", "H3", "H4", "H5", "H6"}

C24_NoHandshakeLoss ==
  [][ (/\ keyBundle
       /\ net # << >>
       /\ Head(net).t \in HsTypes
       /\ \E answer \in BOOLEAN : Deliver(answer))
        => \/ responsePromise < 0
           \/ handshakeProtocol # 0 /\ hpState[handshakeProtocol] # "done" ]_vars

\* the challenge of an encrypted device is gone while the connecting call
\* still waits for startNotifications: no detection promise was there for it
C24_Witness ==
  /\ keyBundle /\ devEncrypted
  /\ devHandshake = "sent1"
  /\ net = << >>
  /\ ~detected
  /\ responsePromise = 0
  /\ \E c \in Calls : call[c].pc = "c_start"

\* ---------------------------------------------------------------------
\* One HandshakeProtocol object whose caller passes it any sequence of
\* handle() calls: handle(null), and the bytes of any message a peer that
\* holds the matching key bundle can build, each call awaited before the
\* next one is made.
\* ---------------------------------------------------------------------

MaxHandled == 4

FeedKeyPairs == {2, 3}

\* the messages of one state: a body that fits the object and bodies that
\* do not (a public key of the peer signed with the peer's key, with
\* another key, over another public key or over another IV, and a body
\* that is not 128 bytes long)
FeedBodies(p, state) ==
  IF state = 1 THEN { Message(1, c, 0, NullSig) : c \in Challenges }
  ELSE IF state = 2
  THEN { Message(2, n, 0, NullSig) : n \in {IvPart(p.aesIv), 0} }
  ELSE IF state \in {3, 6}
  THEN { Message(state, n, 0, NullSig) : n \in {0, 1} }
  ELSE { Message(state, 0, 1, [by |-> k, pub |-> 1, iv |-> p.aesIv]) :
           k \in {"serverKey", "otherKey"} }
       \cup { Message(state, 0, 1, [by |-> "serverKey", pub |-> 2, iv |-> p.aesIv]),
              Message(state, 0, 1, [by |-> "serverKey", pub |-> 1, iv |-> p.aesIv + 1]),
              Message(state, 0, 0, NullSig) }

\* the bytes: toBytes() as it is, or aesEncrypt with the challenge-round key
FeedWires(p) ==
  { Wire("client", m, by) :
      m \in UNION { FeedBodies(p, state) : state \in 1..6 },
      by \in {Plain, [key |-> p.aesKey, iv |-> p.aesIv]} }

InitFeed ==
  /\ hsBundles = HsMatching
  /\ hsProto = [side \in {"client"} |-> NewProtocol]
  /\ hsWire = NoWire
  /\ hsTrace = << >>
  /\ hsSent = << >>
  /\ hsPc = "run"
  /\ AppQuiet
  /\ PendingQuiet
  /\ RtQuiet
  /\ AesQuiet
  /\ RespQuiet
  /\ NotifyQuiet
  /\ MsgQuiet
  /\ InjQuiet

\* no call is under way: the last one returned or threw
FeedIdle ==
  /\ hsPc \in {"run", "failed"}
  /\ hsPc = "run" => hsWire.to # "client"
  /\ Len(hsTrace) < MaxHandled

\* the caller has bytes for the next handle(data)
FeedData(wire) ==
  /\ FeedIdle
  /\ hsWire' = wire
  /\ hsPc' = "run"
  /\ UNCHANGED << hsBundles, hsProto, hsTrace, hsSent, scanVars, clientVars,
                  pendingVars, rtVars, deviceVars, aesVars, respVars,
                  notifyVars,
                  msgVars, injVars >>

\* what a call leaves behind: a call that returned is added to the history
\* and its reply is on the wire; a call that threw leaves the bytes it was
\* given, and whatever it had assigned before it threw
FeedAfter(inState, r) ==
  /\ hsProto' = [hsProto EXCEPT !["client"] = r.proto]
  /\ hsPc' = IF r.threw THEN "failed" ELSE "run"
  /\ hsWire' = IF r.threw THEN hsWire
               ELSE IF r.reply.state = 0 THEN NoWire
               ELSE Wire("server", r.reply, AesOf(r.proto))
  /\ hsTrace' = IF r.threw THEN hsTrace
                ELSE Append(hsTrace, << "client", inState, r.reply.state >>)
  /\ hsSent' = IF r.threw THEN hsSent ELSE Append(hsSent, r.reply)
  /\ UNCHANGED << hsBundles, scanVars, clientVars, pendingVars, rtVars,
                  deviceVars, aesVars, respVars, notifyVars,
                  msgVars, injVars >>

\* handle(null)
FeedNull(challenge, keyPair) ==
  /\ FeedIdle
  /\ FeedAfter(0, handleNull(hsProto["client"], hsBundles["client"],
                             challenge, keyPair))

\* handle(data)
FeedHandle(keyPair) ==
  /\ hsPc = "run"
  /\ hsWire.to = "client"
  /\ FeedAfter(hsWire.msg.state,
               handleData(hsProto["client"], hsBundles["client"], hsWire,
                          keyPair))

NextFeed ==
  \/ \E wire \in FeedWires(hsProto["client"]) : FeedData(wire)
  \/ \E challenge \in Challenges, keyPair \in FeedKeyPairs :
        FeedNull(challenge, keyPair)
  \/ \E keyPair \in FeedKeyPairs : FeedHandle(keyPair)

SpecFeed == InitFeed /\ [][NextFeed]_vars

\* the object is an initiator once its first call was handle(null)
FeedRole ==
  IF hsTrace # << >> /\ hsTrace[1][2] = 0 THEN "initiator" ELSE "responder"

\* the states the role and the phase of the handshake let in
Expected(p, role) ==
  IF hsIsComplete(p) THEN {}
  ELSE IF role = "responder"
  THEN IF p.aesKey = NullKey THEN {1}
       ELSE IF p.ephemeralKeyPair = 0 THEN {3}
       ELSE IF p.peerPublicKey = 0 THEN {4}
       ELSE {6}
  ELSE IF p.ephemeralKeyPair = 0 THEN {2} ELSE {5}

\* C28: a handle(data) call given a message whose state the role and the
\* phase do not expect throws, and leaves every key and the phase of the
\* object as they were.
C28_UnexpectedRejected ==
  [][ (/\ hsPc = "run"
       /\ hsWire.to = "client"
       /\ hsWire.msg.state \notin Expected(hsProto["client"], FeedRole))
        => /\ hsPc' = "failed"
           /\ hsProto' = hsProto ]_vars

\* a second CHALLENGE in the middle of the handshake was answered and
\* replaced the AES key and IV of the first one
C28_Witness ==
  /\ hsPc = "run"
  /\ Len(hsTrace) = 2
  /\ hsTrace[1] = << "client", 1, 2 >>
  /\ hsTrace[2] = << "client", 1, 2 >>
  /\ hsSent[1].n # hsSent[2].n
  /\ hsProto["client"].aesIv = 2
  /\ hsWire.to = "server"

\* the calls that returned, in order, hold these states
FeedInOrder(states) ==
  \E f \in [1..Len(states) -> 1..MaxHandled + 1] :
    /\ \A i \in 1..Len(states) :
         /\ f[i] <= Len(hsTrace)
         /\ hsTrace[f[i]][2] = states[i]
    /\ \A i \in 1..Len(states) - 1 : f[i] < f[i + 1]

\* C29: a complete object holds a peer public key, and it has gone through
\* the handshake of its role: a responder handled states 1, 3, 4 and 6 in
\* this order, an initiator sent state 3 with body 0 and afterwards handled
\* state 5 (a call on state 3, 4, 5 or 6 only returns when the body is 0,
\* respectively when the signature verifies).
C29_CompleteAfterHandshake ==
  hsPc \in {"run", "failed"} /\ hsIsComplete(hsProto["client"])
    => /\ hsProto["client"].peerPublicKey # 0
       /\ \/ FeedInOrder(<< 1, 3, 4, 6 >>)
          \/ \E i, j \in 1..Len(hsTrace) :
               /\ i < j
               /\ hsSent[i].state = 3
               /\ hsSent[i].n = 0
               /\ hsTrace[j][2] = 5

\* complete after handle(null) twice and a signed state 5: no challenge
\* response was ever looked at
C29_Witness ==
  /\ hsIsComplete(hsProto["client"])
  /\ hsTrace = << << "client", 0, 1 >>, << "client", 0, 4 >>,
                  << "client", 5, 6 >> >>

\* C30: handle(data) on state 3 or state 6 with a body other than 0 throws,
\* returns no reply, and leaves the object without the ephemeral key pair
\* (state 3) and without the session key (state 6) it would have made.
C30_RejectedByPeer ==
  [][ (/\ hsPc = "run"
       /\ hsWire.to = "client"
       /\ hsWire.msg.state \in {3, 6}
       /\ hsWire.msg.n # 0)
        => /\ hsPc' = "failed"
           /\ hsWire' = hsWire
           /\ hsSent' = hsSent
           /\ hsProto' = hsProto
           /\ hsIsComplete(hsProto'["client"]) = hsIsComplete(hsProto["client"]) ]_vars

\* a responder that verified state 4 was given state 6 with body 1,
\* encrypted as it expects, and threw: it is not complete
C30_Witness ==
  /\ hsPc = "failed"
  /\ hsWire.to = "client"
  /\ hsWire.msg.state = 6
  /\ hsWire.msg.n = 1
  /\ hsTrace = << << "client", 1, 2 >>, << "client", 3, 0 >>,
                  << "client", 4, 5 >> >>
  /\ hsWire.by = AesOf(hsProto["client"])
  /\ ~hsIsComplete(hsProto["client"])

\* ---------------------------------------------------------------------
\* The client's notification listener during the handshake with the mock
\* device: every notification event starts a handleNotification call of its
\* own, and a call gives way at each await inside handle() and at the write
\* of its reply.
\* ---------------------------------------------------------------------

NfTask(wire, pc, by, reply) == [wire |-> wire, pc |-> pc, by |-> by, reply |-> reply]

RemoveAt(tasks, i) == SubSeq(tasks, 1, i - 1) \o SubSeq(tasks, i + 1, Len(tasks))

InitNotify ==
  /\ hsBundles = HsMatching
  /\ hsProto = [side \in {"client", "server"} |-> NewProtocol]
  /\ hsWire = NoWire
  /\ hsTrace = << >>
  /\ hsSent = << >>
  /\ hsPc = "run"
  /\ nfNet = << >>
  /\ nfTasks = << >>
  /\ AppQuiet
  /\ PendingQuiet
  /\ RtQuiet
  /\ AesQuiet
  /\ RespQuiet
  /\ MsgQuiet
  /\ InjQuiet

\* a handle() call by side has returned r, or has thrown
NfLog(side, inState, r) ==
  /\ hsTrace' = Append(hsTrace, << side, inState,
                                  IF r.threw THEN -1 ELSE r.reply.state >>)
  /\ hsSent' = Append(hsSent, r.reply)
  /\ hsPc' = IF r.threw THEN "failed" ELSE hsPc

\* setNotifyCharacteristic: the device sends its challenge
NfChallenge(challenge) ==
  /\ hsProto["server"] = NewProtocol
  /\ LET r == handleNull(hsProto["server"], hsBundles["server"], challenge, 0)
     IN /\ hsProto' = [hsProto EXCEPT !["server"] = r.proto]
        /\ nfNet' = Append(nfNet, Wire("client", r.reply, AesOf(r.proto)))
        /\ NfLog("server", 0, r)
  /\ UNCHANGED << hsBundles, hsWire, nfTasks, scanVars, clientVars,
                  pendingVars, rtVars, deviceVars, aesVars, respVars,
                  msgVars, injVars >>

\* detectAndHandleEncryption: the first notification resolves the promise;
\* a new HandshakeProtocol handles it, the reply is written and the
\* protocol is attached
NfDetect ==
  /\ hsProto["client"] = NewProtocol
  /\ nfNet # << >>
  /\ hsWire.to # "server"
  /\ LET r == handleData(hsProto["client"], hsBundles["client"], Head(nfNet), 0)
     IN /\ ~r.threw
        /\ hsProto' = [hsProto EXCEPT !["client"] = r.proto]
        /\ hsWire' = Wire("server", r.reply, AesOf(r.proto))
        /\ NfLog("client", Head(nfNet).msg.state, r)
  /\ nfNet' = Tail(nfNet)
  /\ UNCHANGED << hsBundles, nfTasks, scanVars, clientVars, pendingVars,
                  rtVars, deviceVars, aesVars, respVars,
                  msgVars, injVars >>

\* handleWrite -> _handleHandshakeMessage: the device answers the write, and
\* after CHALLENGE_ACCEPTED [0] it sends its public key right behind
NfDeviceWrite(keyPair) ==
  /\ hsWire.to = "server"
  /\ LET r == handleData(hsProto["server"], hsBundles["server"], hsWire, keyPair)
         accepted == ~r.threw /\ r.reply.state = 3 /\ r.reply.n = 0
         keyRound == handleNull(r.proto, hsBundles["server"], 0, keyPair)
     IN /\ hsProto' = [hsProto EXCEPT
                         !["server"] = IF accepted THEN keyRound.proto ELSE r.proto]
        /\ nfNet' = nfNet
                    \o (IF r.threw \/ r.reply.state = 0 THEN << >>
                        ELSE << Wire("client", r.reply, AesOf(r.proto)) >>)
                    \o (IF accepted
                        THEN << Wire("client", keyRound.reply, AesOf(keyRound.proto)) >>
                        ELSE << >>)
        /\ hsTrace' = Append(hsTrace, << "server", hsWire.msg.state,
                                        IF r.threw THEN -1 ELSE r.reply.state >>)
                      \o (IF accepted
                          THEN << << "server", 0, keyRound.reply.state >> >>
                          ELSE << >>)
        /\ hsSent' = Append(hsSent, r.reply)
                     \o (IF accepted THEN << keyRound.reply >> ELSE << >>)
        /\ hsPc' = IF r.threw THEN "failed" ELSE hsPc
  /\ hsWire' = NoWire
  /\ UNCHANGED << hsBundles, nfTasks, scanVars, clientVars, pendingVars,
                  rtVars, deviceVars, aesVars, respVars,
                  msgVars, injVars >>

\* _handleChallengeAccepted and _handleEcdhAccepted throw before they await
BodyRejected(m) == m.state \in {3, 6} /\ m.n # 0

\* a notification event: handleNotification runs up to the first await
\* inside handle(). Whether to decrypt is decided here, from the fields as
\* they are now; without decryption the bytes are parsed at once.
NfArrive ==
  /\ nfNet # << >>
  /\ hsProto["client"] # NewProtocol
  /\ ~hsIsComplete(hsProto["client"])
  /\ LET wire == Head(nfNet)
         p == hsProto["client"]
     IN IF UsesAes(p)
        THEN /\ nfTasks' = Append(nfTasks, NfTask(wire, "decrypt", AesOf(p), NoWire))
             /\ UNCHANGED << hsTrace, hsSent, hsPc >>
        ELSE IF wire.by # Plain \/ BodyRejected(wire.msg)
        THEN /\ NfLog("client", wire.msg.state, HsThrew(p))
             /\ UNCHANGED nfTasks
        ELSE /\ nfTasks' = Append(nfTasks, NfTask(wire, "crypto", Plain, NoWire))
             /\ UNCHANGED << hsTrace, hsSent, hsPc >>
  /\ nfNet' = Tail(nfNet)
  /\ UNCHANGED << hsBundles, hsProto, hsWire, scanVars, clientVars,
                  pendingVars, rtVars, deviceVars, aesVars, respVars,
                  msgVars, injVars >>

\* aesDecrypt has settled: the call parses what came out
NfDecrypted(i) ==
  /\ i \in 1..Len(nfTasks)
  /\ nfTasks[i].pc = "decrypt"
  /\ LET task == nfTasks[i]
     IN IF task.wire.by # task.by \/ BodyRejected(task.wire.msg)
        THEN /\ NfLog("client", task.wire.msg.state, HsThrew(hsProto["client"]))
             /\ nfTasks' = RemoveAt(nfTasks, i)
        ELSE /\ nfTasks' = [nfTasks EXCEPT ![i].pc = "crypto"]
             /\ UNCHANGED << hsTrace, hsSent, hsPc >>
  /\ UNCHANGED << hsBundles, hsProto, hsWire, nfNet, scanVars, clientVars,
                  pendingVars, rtVars, deviceVars, aesVars, respVars,
                  msgVars, injVars >>

\* the crypto.subtle calls of the message's handler have settled: the
\* fields are assigned and handle() returns
NfHandled(i, keyPair) ==
  /\ i \in 1..Len(nfTasks)
  /\ nfTasks[i].pc = "crypto"
  /\ LET task == nfTasks[i]
         r == handleMessage(hsProto["client"], hsBundles["client"],
                            task.wire.msg, keyPair)
     IN /\ hsProto' = [hsProto EXCEPT !["client"] = r.proto]
        /\ NfLog("client", task.wire.msg.state, r)
        /\ nfTasks' = IF r.threw \/ r.reply.state = 0
                      THEN RemoveAt(nfTasks, i)
                      ELSE [nfTasks EXCEPT
                              ![i] = NfTask(task.wire, "write", task.by,
                                            Wire("server", r.reply, AesOf(r.proto)))]
  /\ UNCHANGED << hsBundles, hsWire, nfNet, scanVars, clientVars,
                  pendingVars, rtVars, deviceVars, aesVars, respVars,
                  msgVars, injVars >>

\* await this.write(res)
NfWrite(i) ==
  /\ i \in 1..Len(nfTasks)
  /\ nfTasks[i].pc = "write"
  /\ hsWire.to # "server"
  /\ hsWire' = nfTasks[i].reply
  /\ nfTasks' = RemoveAt(nfTasks, i)
  /\ UNCHANGED << hsBundles, hsProto, hsTrace, hsSent, hsPc, nfNet, scanVars,
                  clientVars, pendingVars, rtVars, deviceVars, aesVars,
                  respVars,
                  msgVars, injVars >>

NfTaskIds == 1..2

NextNotify ==
  \/ \E challenge \in Challenges : NfChallenge(challenge)
  \/ NfDetect
  \/ \E keyPair \in KeyPairs : NfDeviceWrite(keyPair)
  \/ NfArrive
  \/ \E i \in NfTaskIds : NfDecrypted(i)
  \/ \E i \in NfTaskIds, keyPair \in KeyPairs : NfHandled(i, keyPair)
  \/ \E i \in NfTaskIds : NfWrite(i)

SpecNotify == InitNotify /\ [][NextNotify]_vars

\* C23: a handleNotification call for a handshake message begins only when
\* no earlier call is still under way (its handle() not yet returned, or its
\* reply not yet written).
C23_InOrder ==
  [][ (/\ nfNet # << >>
       /\ nfNet' = Tail(nfNet)
       /\ hsProto["client"] # NewProtocol)
        => nfTasks = << >> ]_vars

\* state 4 arrived while the call for state 3 was still generating the
\* ephemeral keys: it was parsed without decryption and thrown away, and
\* the handshake stands still
C23_Witness ==
  /\ hsTrace # << >>
  /\ hsTrace[Len(hsTrace)] \in { << "client", 4, -1 >>, << "client", 3, 0 >> }
  /\ \E k \in 1..Len(hsTrace) : hsTrace[k] = << "client", 4, -1 >>
  /\ hsProto["client"].ephemeralKeyPair # 0
  /\ hsProto["client"].peerPublicKey = 0
  /\ nfNet = << >>
  /\ nfTasks = << >>
  /\ hsWire = NoWire

\* ---------------------------------------------------------------------
\* The mock device as initiator of the handshake, written to by any peer:
\* after its challenge, every write is one of the frames a holder of the
\* client's key bundle can build.
\* ---------------------------------------------------------------------

MaxDevCalls == 5

\* FeedWires addressed to the device, signed with the client's key
DevWires(p) ==
  { Wire("server",
         [w.msg EXCEPT !.sig.by = IF @ = "serverKey" THEN "clientKey" ELSE @],
         w.by) : w \in FeedWires(p) }

\* writeValueWithResponse(value) by the peer
DevFeed(wire) ==
  /\ hsProto["server"] # NewProtocol
  /\ hsWire.to # "server"
  /\ Len(hsTrace) < MaxDevCalls
  /\ hsWire' = wire
  /\ UNCHANGED << hsBundles, hsProto, hsTrace, hsSent, hsPc, notifyVars,
                  scanVars, clientVars, pendingVars, rtVars, deviceVars,
                  aesVars, respVars,
                  msgVars, injVars >>

NextDev ==
  \/ \E challenge \in Challenges : NfChallenge(challenge)
  \/ \E wire \in DevWires(hsProto["server"]) : DevFeed(wire)
  \/ \E keyPair \in KeyPairs : NfDeviceWrite(keyPair)

SpecDev == InitNotify /\ [][NextDev]_vars

\* the device has answered a challenge response with state 3 body 1
DevRejected == \E i \in 1..Len(hsSent) : hsSent[i].state = 3 /\ hsSent[i].n = 1

\* C31: the device answers a state-2 frame with state 3, body 0 exactly
\* when the four bytes are aes_iv[8..12] of its challenge and body 1
\* otherwise; once it has answered with body 1 it sends no state-4 public
\* key and does not complete the handshake.
C31_ChallengeResponse ==
  [][ /\ (/\ hsWire.to = "server"
          /\ hsWire.msg.state = 2
          /\ hsWire.by = AesOf(hsProto["server"])
          /\ hsProto["server"].aesIv # 0)
         => /\ Len(hsSent') > Len(hsSent)
            /\ hsSent'[Len(hsSent) + 1].state = 3
            /\ hsSent'[Len(hsSent) + 1].n
                 = (IF hsWire.msg.n = IvPart(hsProto["server"].aesIv) THEN 0 ELSE 1)
      /\ DevRejected
         => /\ \A i \in Len(hsSent) + 1 .. Len(hsSent') : hsSent'[i].state # 4
            /\ ~hsIsComplete(hsProto'["server"]) ]_vars

\* after state 3 body 1 a second, correct challenge response was written:
\* the device accepted it, sent its public key and completed on state 5
C31_Witness ==
  /\ hsIsComplete(hsProto["server"])
  /\ DevRejected
  /\ \E i, j \in 1..Len(hsSent) :
       /\ i < j
       /\ hsSent[i].state = 3 /\ hsSent[i].n = 1
       /\ hsSent[j].state = 4

\* C32: handle(data) on state 4 or 5 whose body is not a public key with a
\* signature of the bundle's verify key over that key and the IV throws,
\* stores no peer public key, returns no reply and derives no session key.
C32_BadSignatureRejected ==
  [][ (/\ hsPc = "run"
       /\ hsWire.to = "client"
       /\ hsWire.msg.state \in {4, 5}
       /\ hsWire.msg.sig # [by |-> hsBundles["client"].verifyKey,
                            pub |-> hsWire.msg.pub,
                            iv |-> hsProto["client"].aesIv])
        => /\ hsPc' = "failed"
           /\ hsWire' = hsWire
           /\ hsSent' = hsSent
           /\ hsProto' = hsProto ]_vars

\* a responder past state 3 was given state 4, encrypted as it expects,
\* with the key signed by another signing key: it threw and holds no peer key
C32_Witness ==
  /\ hsPc = "failed"
  /\ hsWire.to = "client"
  /\ hsWire.msg.state = 4
  /\ hsWire.msg.sig.by = "otherKey"
  /\ UsesAes(hsProto["client"])
  /\ hsWire.by = AesOf(hsProto["client"])
  /\ hsProto["client"].peerPublicKey = 0
  /\ ~hsIsComplete(hsProto["client"])

\* C33: a handshake frame on the wire is inside the AES codec, keyed with
\* the sender's challenge-round key and IV, exactly when its state is 3 or
\* higher, and the protocol it is for makes the same choice when it decodes.
C33_Wrapping ==
  (hsPc = "run" /\ hsWire.to \in {"client", "server"})
    => /\ hsWire.msg.state >= 3
            <=> /\ hsWire.by # Plain
                /\ hsWire.by = [key |-> hsProto[Other(hsWire.to)].aesKey,
                                iv |-> hsProto[Other(hsWire.to)].aesIv]
       /\ UsesAes(hsProto[hsWire.to]) <=> hsWire.by # Plain

\* the server's CHALLENGE_ACCEPTED is on its way to the client as plain bytes
C33_Witness ==
  /\ hsPc = "run"
  /\ hsWire.to = "client"
  /\ hsWire.msg.state = 3
  /\ hsWire.by = Plain
  /\ hsProto["server"].aesKey # NullKey
  /\ hsBundles = HsMatching

\* ---------------------------------------------------------------------
\* HandshakeMessage: toBytes() and parse() as they are computed, over
\* messages of every state and frames damaged in one place.
\* ---------------------------------------------------------------------

HANDSHAKE_PREFIX == << 42, 42 >>

\* sum += data[i] for i from lo to hi
RECURSIVE SumRange(_, _, _)
SumRange(bytes, lo, hi) ==
  IF lo > hi THEN 0
  ELSE IF lo = hi THEN bytes[lo]
  ELSE SumRange(bytes, lo, (lo + hi) \div 2)
         + SumRange(bytes, (lo + hi) \div 2 + 1, hi)

ByteSum(bytes) == SumRange(bytes, 1, Len(bytes))

\* the two checksum bytes of the bytes after the prefix, big-endian
HmChecksum(counted) ==
  << (ByteSum(counted) \div 256) % 256, ByteSum(counted) % 256 >>

\* toBytes(): prefix, state, length, body, checksum
toBytes(state, msgBody) ==
  LET counted == << state % 256, Len(msgBody) % 256 >> \o msgBody
  IN HANDSHAKE_PREFIX \o counted \o HmChecksum(counted)

HmThrew(why) == [threw |-> TRUE, why |-> why, state |-> 0, body |-> << >>]

\* parse() without the test of the length byte
parse_NoLengthCheck(data) ==
  IF Len(data) < 6 THEN HmThrew("short")
  ELSE IF data[1] # HANDSHAKE_PREFIX[1] \/ data[2] # HANDSHAKE_PREFIX[2]
  THEN HmThrew("prefix")
  ELSE IF ByteSum(SubSeq(data, 3, Len(data) - 2))
            # data[Len(data) - 1] * 256 + data[Len(data)]
  THEN HmThrew("checksum")
  ELSE [threw |-> FALSE, why |-> "", state |-> data[3],
        body |-> SubSeq(data, 5, Len(data) - 2)]

\* static parse(data)
parse(data) ==
  IF Len(data) < 6 THEN HmThrew("short")
  ELSE IF data[1] # HANDSHAKE_PREFIX[1] \/ data[2] # HANDSHAKE_PREFIX[2]
  THEN HmThrew("prefix")
  ELSE IF ByteSum(SubSeq(data, 3, Len(data) - 2))
            # data[Len(data) - 1] * 256 + data[Len(data)]
  THEN HmThrew("checksum")
  ELSE IF data[4] # Len(data) - 6 THEN HmThrew("length")
  ELSE [threw |-> FALSE, why |-> "", state |-> data[3],
        body |-> SubSeq(data, 5, Len(data) - 2)]

\* what is done to the bytes of a message before they are parsed
HmDamages ==
  {"none", "short", "truncated", "prefix0", "prefix1", "checksum", "length",
   "longer"}

HmDamaged(frame, damage) ==
  LET n == Len(frame)
      counted == SubSeq(frame, 3, n - 2)
  IN IF damage = "short" THEN SubSeq(frame, 1, 5)
     ELSE IF damage = "truncated" THEN SubSeq(frame, 1, n - 1)
     ELSE IF damage = "prefix0" THEN [frame EXCEPT ![1] = 43]
     ELSE IF damage = "prefix1" THEN [frame EXCEPT ![2] = 0]
     ELSE IF damage = "checksum" THEN [frame EXCEPT ![n] = (@ + 1) % 256]
     ELSE IF damage = "length"
     THEN LET other == [counted EXCEPT ![2] = (@ + 1) % 256]
          IN HANDSHAKE_PREFIX \o other \o HmChecksum(other)
     ELSE IF damage = "longer"
     THEN LET other == Append(counted, 7)
          IN HANDSHAKE_PREFIX \o other \o HmChecksum(other)
     ELSE frame

HmLengths == {0, 1, 4, 128, 255}

HmInputs ==
  [state : 1..6, n : HmLengths, a : {0, 1}, b : {0, 1, 255},
   damage : HmDamages]

HmBody(args) == Bytes(args.n, args.a, args.b)

HmFrame(args) == HmDamaged(toBytes(args.state, HmBody(args)), args.damage)

InitMsg ==
  /\ hmArgs \in HmInputs
  /\ hmOut = << >>
  /\ hmPc = "built"
  /\ AppQuiet
  /\ PendingQuiet
  /\ RtQuiet
  /\ HsQuiet
  /\ AesQuiet
  /\ RespQuiet
  /\ NotifyQuiet
  /\ InjQuiet

\* HandshakeMessage.parse(bytes)
HmParse ==
  /\ hmPc = "built"
  /\ hmOut' = parse(HmFrame(hmArgs))
  /\ hmPc' = "parsed"
  /\ UNCHANGED << hmArgs, scanVars, clientVars, pendingVars, rtVars, hsVars,
                  deviceVars, aesVars, respVars, notifyVars, injVars >>

NextMsg == HmParse

SpecMsg == InitMsg /\ [][NextMsg]_vars

\* the frame is one the claim says parse rejects
HmMalformed(data) ==
  \/ Len(data) < 6
  \/ SubSeq(data, 1, 2) # << 42, 42 >>
  \/ data[Len(data) - 1] * 256 + data[Len(data)]
       # ByteSum(SubSeq(data, 3, Len(data) - 2))
  \/ data[4] # Len(data) - 6

\* C34: parse(toBytes(m)) is m for every state 1..6 and every body of up to
\* 255 bytes, and parse throws on a frame shorter than 6 bytes, without the
\* prefix 2A 2A, with a checksum other than the sum of state, length and
\* body bytes, or with a length byte other than the length of the body.
C34_ParseInverse ==
  hmPc = "parsed"
    => /\ hmArgs.damage = "none"
            => /\ ~hmOut.threw
               /\ hmOut.state = hmArgs.state
               /\ hmOut.body = HmBody(hmArgs)
       /\ HmMalformed(HmFrame(hmArgs)) => hmOut.threw
       /\ hmArgs.damage # "none" => HmMalformed(HmFrame(hmArgs))

\* a state-4 message with a body of 255 bytes 0xFF came back as it was
C34_Witness ==
  /\ hmPc = "parsed"
  /\ hmArgs.damage = "none"
  /\ hmArgs.n = 255
  /\ hmArgs.a = 0
  /\ hmArgs.b = 255
  /\ hmArgs.state = 4
  /\ ~hmOut.threw
  /\ Len(hmOut.body) = 255
  /\ hmOut.body[255] = 255

\* ---------------------------------------------------------------------
\* Scanner claims on the pending stack
\* ---------------------------------------------------------------------
RangeSize(r) == r.end - r.start

\* C35: at every point of a scan each pending range holds 1 to 7
\* registers, the pending ranges are pairwise disjoint and lie inside the
\* input ranges, the registers of the input ranges that are not pending are
\* exactly those this scanner has counted and written a result for, a
\* pending register has no result of this scanner yet, and every read asks
\* for 1 to 7 registers inside the input ranges.
C35_PendingPartition ==
  scanPc # "none"
    => /\ \A i \in DOMAIN remainingRanges :
            /\ RangeSize(remainingRanges[i]) >= 1
            /\ RangeSize(remainingRanges[i]) <= 7
       /\ \A i, j \in DOMAIN remainingRanges :
            i # j => RegsOfRange(remainingRanges[i])
                       \cap RegsOfRange(remainingRanges[j]) = {}
       /\ RegsOf(remainingRanges) \subseteq RegsOf(scanRanges)
       /\ scannedRegisters = Cardinality(Recorded)
       /\ \A r \in Recorded : HasEntry(scanDevice, r)
       /\ \A r \in RegsOf(remainingRanges) :
            HasEntry(scanDevice, r)
              => /\ r \in DOMAIN priorStore[scanDevice]
                 /\ store[scanDevice][r] = priorStore[scanDevice][r]
       /\ lastStep.kind \in {"read", "unreadable", "split"}
            => /\ lastStep.count \in 1 .. 7
               /\ lastStep.start .. lastStep.start + lastStep.count - 1
                    \subseteq RegsOf(scanRanges)

\* a range of MaxAddr registers was cut in a chunk of 7 and a chunk of 1;
\* the first was split after a failed read and its upper half is resolved
C35_Witness ==
  /\ scanPc \in {"ready", "running"}
  /\ totalRegisters > MAX_REGISTERS_PER_REQUEST
  /\ Len(remainingRanges) = 2
  /\ RangeSize(remainingRanges[1]) = 1
  /\ RangeSize(remainingRanges[2]) = 3
  /\ scannedRegisters = 4
  /\ lastStep.kind = "read"

\* the input range a chunk was cut from
Owner(chunk, input) ==
  CHOOSE k \in DOMAIN input :
    input[k].start <= chunk.start /\ chunk.end <= input[k].end

\* popping the stack (last element first) yields the chunks in the order
\* of the input ranges and, inside one, of the addresses
InInputOrder(stack, input) ==
  \A i, j \in DOMAIN stack :
    i > j => \/ Owner(stack[i], input) < Owner(stack[j], input)
             \/ /\ Owner(stack[i], input) = Owner(stack[j], input)
                /\ stack[i].end <= stack[j].start

\* C36: the constructor stacks the initial chunks so that they are taken in
\* input order; every read takes the chunk on top of the stack and leaves
\* the chunks below it as they are; a failed chunk of n >= 2 registers is
\* replaced, on top, by its two non-empty halves cut at start + floor(n/2),
\* so that they and their subdivisions are read before anything below.
C36_StackDiscipline ==
  [][ /\ (scanPc = "none" /\ scanPc' # "none")
         => InInputOrder(remainingRanges', scanRanges')
      /\ reads' # reads
         => LET top == remainingRanges[Len(remainingRanges)]
                rest == SubSeq(remainingRanges, 1, Len(remainingRanges) - 1)
                n == RangeSize(top)
                mid == top.start + (n \div 2)
            IN /\ lastStep'.start = top.start
               /\ lastStep'.count = n
               /\ lastStep'.kind = "unreadable" => n = 1
               /\ IF lastStep'.kind = "split"
                  THEN /\ n >= 2
                       /\ top.start < mid /\ mid < top.end
                       /\ remainingRanges'
                            = rest \o << Range(top.start, mid), Range(mid, top.end) >>
                  ELSE remainingRanges' = rest ]_vars

\* two input ranges given out of address order: the chunk of the first was
\* split and its halves resolved while the chunk of the second is still
\* waiting below
C36_Witness ==
  /\ scanRanges = << Range(MaxAddr - 2, MaxAddr), Range(0, 2) >>
  /\ remainingRanges = << Range(0, 2) >>
  /\ scannedRegisters = 2
  /\ reads = 3
  /\ lastStep.kind \in {"read", "unreadable"}
  /\ lastStep.start = MaxAddr - 2

\* run(): while (await this.step(signal)) {} goes on as long as step() can
\* be called, and every readRegisters call settles
RunLoop ==
  /\ scanPc = "running"
  /\ \/ StepIdle
     \/ \E ok \in BOOLEAN, got \in 1 .. MAX_REGISTERS_PER_REQUEST :
          StepChunk(ok, got)

\* a scanner on a device no earlier session has scanned
InitScanRun == InitScan /\ store = [d \in Devices |-> << >>]

SpecScanRun == InitScanRun /\ [][NextScan]_vars /\ WF_vars(RunLoop)

\* the reads that resolving these ranges can take at most: 2n - 1 for n
\* registers
RECURSIVE ReadBudget(_)
ReadBudget(ranges) ==
  IF ranges = << >> THEN 0
  ELSE 2 * RangeSize(Head(ranges)) - 1 + ReadBudget(Tail(ranges))

\* C37: whatever the device answers, a run() comes to its end, and without
\* an abort it ends with no range pending; the reads made so far and the
\* budget of 2n - 1 reads of every pending range never exceed the budget of
\* the initial chunks; and a register gets a readable=false result only in
\* a step whose read of that one register failed.
C37_Termination ==
  /\ [](scanPc # "none"
          => reads + ReadBudget(remainingRanges)
               <= ReadBudget(splitRangesToSize(scanRanges, 7)))
  /\ []((scanPc = "finished" /\ ~signalAborted) => remainingRanges = << >>)
  /\ [][ \A d \in Devices, r \in Addrs :
           (/\ r \in DOMAIN store'[d]
            /\ ~store'[d][r].readable
            /\ r \notin DOMAIN store[d] \/ store'[d][r] # store[d][r])
             => /\ d = scanDevice
                /\ reads' = reads + 1
                /\ lastStep'.kind = "unreadable"
                /\ lastStep'.start = r
                /\ lastStep'.count = 1 ]_vars
  /\ (scanPc = "running") ~> (scanPc = "finished")

\* a run over a chunk of seven registers on a device that fails every read
\* has finished after 13 reads, every register recorded unreadable
C37_Witness ==
  /\ scanPc = "finished"
  /\ ~signalAborted
  /\ scanRanges = << Range(0, MAX_REGISTERS_PER_REQUEST) >>
  /\ reads = 13
  /\ remainingRanges = << >>
  /\ priorStore[scanDevice] = << >>
  /\ \A r \in 0 .. 6 : ~store[scanDevice][r].readable

\* ------------------------------------------------------------------------
\* scanner.ts: the progress events of a cancelled scan
\* ------------------------------------------------------------------------
\* a scan stopped by its signal: step() has returned false on the aborted
\* signal while ranges were still pending
ScanCancelled ==
  /\ signalAborted
  /\ lastStep.kind = "idle"
  /\ remainingRanges # << >>

\* C38: a cancelled scan, driven by run() or by step() calls, has emitted a
\* progress event, and the last one carries the number of registers resolved
\* when the scan stopped.
C38_CancelledProgress ==
  ScanCancelled => progress = << scannedRegisters, totalRegisters >>

\* step() was called with an aborted signal on a scanner that run() never
\* started and that has resolved nothing: no progress event was dispatched
C38_Witness ==
  /\ ScanCancelled
  /\ scanPc = "ready"
  /\ scannedRegisters = 0
  /\ reads = 0
  /\ progress = << >>

\* the same holds of every scan that run() drives, and of a step()-driven
\* scan once one chunk has been read
CancelledAfterFirstEvent ==
  (ScanCancelled /\ (scanPc = "finished" \/ reads > 0))
    => progress = << scannedRegisters, totalRegisters >>

\* ------------------------------------------------------------------------
\* failure-injector.ts: FailureInjector, and the write path of the mock
\* device that consults it
\* ------------------------------------------------------------------------
MaxQueue == 3

TIMEOUT == "timeout"

CRC_ERROR == "crc_error"

CONNECTION_ERROR == "connection_error"

RESPONSE_OVERRIDE == "response_override"

OverrideTypes == { TIMEOUT, CRC_ERROR, CONNECTION_ERROR, RESPONSE_OVERRIDE }

ConnectionErrorTypes == { "ble", "eof" }

OverrideResponses == { "bytesA", "bytesB" }

\* type Override: arg is the errorType of a connection error and the
\* response of a response override
Override(type, arg) == [type |-> type, arg |-> arg]

RECURSIVE Repeat(_, _)
Repeat(o, count) == IF count = 0 THEN << >> ELSE << o >> \o Repeat(o, count - 1)

\* a check that takes the first override of its kind wherever it is queued
ConsumeNext_AnyPosition(queue, type) ==
  IF \E i \in DOMAIN queue : queue[i].type = type
  THEN LET i == CHOOSE k \in DOMAIN queue :
                  /\ queue[k].type = type
                  /\ \A j \in 1 .. k - 1 : queue[j].type # type
       IN [hit |-> TRUE, next |-> queue[i],
           queue |-> SubSeq(queue, 1, i - 1) \o SubSeq(queue, i + 1, Len(queue))]
  ELSE [hit |-> FALSE, next |-> Override("none", "none"), queue |-> queue]

\* const next = this.overrideQueue[0];
\* if (next?.type === type) { this.overrideQueue.shift(); ... }
ConsumeNext(queue, type) ==
  IF queue # << >> /\ Head(queue).type = type
  THEN [hit |-> TRUE, next |-> Head(queue), queue |-> Tail(queue)]
  ELSE [hit |-> FALSE, next |-> Override("none", "none"), queue |-> queue]

\* each check: what it reports (or throws) and the queue it leaves
shouldTimeout(queue) ==
  LET c == ConsumeNext(queue, TIMEOUT)
  IN [result |-> c.hit, queue |-> c.queue]

shouldCorruptCrc(queue) ==
  LET c == ConsumeNext(queue, CRC_ERROR)
  IN [result |-> c.hit, queue |-> c.queue]

checkConnectionError(queue) ==
  LET c == ConsumeNext(queue, CONNECTION_ERROR)
  IN [result |-> IF ~c.hit THEN "returned"
                 ELSE IF c.next.arg = "ble" THEN "BleError" ELSE "EofError",
      queue |-> c.queue]

getResponseOverride(queue) ==
  LET c == ConsumeNext(queue, RESPONSE_OVERRIDE)
  IN [result |-> IF c.hit THEN c.next.arg ELSE "undefined", queue |-> c.queue]

\* the kind a check looks for, and what it reports when it finds nothing
CheckKind ==
  [shouldTimeout |-> TIMEOUT, shouldCorruptCrc |-> CRC_ERROR,
   checkConnectionError |-> CONNECTION_ERROR,
   getResponseOverride |-> RESPONSE_OVERRIDE]

NoFailure ==
  [shouldTimeout |-> FALSE, shouldCorruptCrc |-> FALSE,
   checkConnectionError |-> "returned", getResponseOverride |-> "undefined"]

Checks == DOMAIN CheckKind

RunCheck(op, queue) ==
  CASE op = "shouldTimeout" -> shouldTimeout(queue)
    [] op = "shouldCorruptCrc" -> shouldCorruptCrc(queue)
    [] op = "checkConnectionError" -> checkConnectionError(queue)
    [] op = "getResponseOverride" -> getResponseOverride(queue)

\* MockCharacteristic.writeValueWithResponse followed by
\* MockBluetoothDevice.handleWrite: the outcome of one write, the response
\* notified and the queue left. inHandshake: the device is encrypted and has
\* no session key yet, so handleWrite hands the bytes to the handshake.
WriteOutcome(queue, inHandshake) ==
  LET conn == checkConnectionError(queue)
      tmo  == shouldTimeout(conn.queue)
      ovr  == getResponseOverride(tmo.queue)
      crc  == shouldCorruptCrc(ovr.queue)
  IN IF conn.result # "returned"
     THEN [result |-> conn.result, response |-> "none", corrupted |-> FALSE,
           queue |-> conn.queue]
     ELSE IF tmo.result
     THEN [result |-> "no response", response |-> "none", corrupted |-> FALSE,
           queue |-> tmo.queue]
     ELSE IF inHandshake
     THEN [result |-> "handshake", response |-> "none", corrupted |-> FALSE,
           queue |-> tmo.queue]
     ELSE [result |-> "notified",
           response |-> IF ovr.result # "undefined" THEN ovr.result ELSE "modbus",
           corrupted |-> crc.result,
           queue |-> crc.queue]

\* the overrides an operation took from the front of the queue
Consumed(before, after) == SubSeq(before, 1, Len(before) - Len(after))

Flip(pc) == IF pc = "even" THEN "odd" ELSE "even"

InjOthers ==
  UNCHANGED << scanVars, clientVars, pendingVars, rtVars, hsVars, deviceVars,
               aesVars, respVars, notifyVars, msgVars >>

\* fiLast: the last call on the injector or the mock, what it gave back and
\* the overrides it consumed; fiPc: the parity of the number of calls made
InjDone(op, result, queue) ==
  /\ overrideQueue' = queue
  /\ fiLast' = [op |-> op, result |-> result,
                consumed |-> Consumed(overrideQueue, queue)]
  /\ fiPc' = Flip(fiPc)
  /\ InjOthers

\* new FailureInjector()
InitInj ==
  /\ overrideQueue = << >>
  /\ fiLast = [op |-> "new", result |-> "none", consumed |-> << >>]
  /\ fiPc = "even"
  /\ AppQuiet
  /\ PendingQuiet
  /\ RtQuiet
  /\ HsQuiet
  /\ AesQuiet
  /\ RespQuiet
  /\ NotifyQuiet
  /\ MsgQuiet

Inject(op, o, count) ==
  /\ Len(overrideQueue) + count <= MaxQueue
  /\ InjDone(op, "none", overrideQueue \o Repeat(o, count))

injectTimeout(count) == Inject("injectTimeout", Override(TIMEOUT, "none"), count)

injectCrcError(count) == Inject("injectCrcError", Override(CRC_ERROR, "none"), count)

injectConnectionError(errorType, count) ==
  Inject("injectConnectionError", Override(CONNECTION_ERROR, errorType), count)

overrideNextResponse(response) ==
  Inject("overrideNextResponse", Override(RESPONSE_OVERRIDE, response), 1)

\* a direct call of one of the four checks
InjCheck(op) ==
  LET c == RunCheck(op, overrideQueue)
  IN InjDone(op, c.result, c.queue)

\* MockGATTServer.connect(): hangs when a timeout is next
GattConnect ==
  LET c == shouldTimeout(overrideQueue)
  IN InjDone("connect", c.result, c.queue)

\* a write to the mock's write characteristic
MockWrite(inHandshake) ==
  LET w == WriteOutcome(overrideQueue, inHandshake)
  IN InjDone("write", [result |-> w.result, response |-> w.response,
                       corrupted |-> w.corrupted], w.queue)

\* clear()
InjClear == InjDone("clear", "none", << >>)

NextInj ==
  \/ \E count \in 1 .. 2 : injectTimeout(count)
  \/ \E count \in 1 .. 2 : injectCrcError(count)
  \/ \E errorType \in ConnectionErrorTypes, count \in 1 .. 2 :
        injectConnectionError(errorType, count)
  \/ \E response \in OverrideResponses : overrideNextResponse(response)
  \/ \E op \in Checks : InjCheck(op)
  \/ GattConnect
  \/ \E inHandshake \in BOOLEAN : MockWrite(inHandshake)
  \/ InjClear

SpecInj == InitInj /\ [][NextInj]_vars

\* pendingCount
pendingCount == Len(overrideQueue)

ConsumedTypes == { fiLast.consumed[i].type : i \in DOMAIN fiLast.consumed }

\* C39: one write to the mock's write characteristic takes at most one
\* override from the queue, except that it may take a timeout and a crc_error
\* together.
C39_OnePerWrite ==
  [][(fiLast'.op = "write" /\ fiPc' # fiPc)
       => LET n == Len(overrideQueue) - Len(overrideQueue')
          IN \/ n <= 1
             \/ /\ n = 2
                /\ { overrideQueue[1].type, overrideQueue[2].type }
                     = { TIMEOUT, CRC_ERROR }]_vars

\* one write has taken a response override and the crc_error queued behind
\* it: the override's bytes were notified with their last byte flipped
C39_Witness ==
  /\ fiLast.op = "write"
  /\ fiLast.result.result = "notified"
  /\ fiLast.result.response = "bytesA"
  /\ fiLast.result.corrupted
  /\ fiLast.consumed = << Override(RESPONSE_OVERRIDE, "bytesA"),
                          Override(CRC_ERROR, "none") >>
  /\ overrideQueue = << Override(TIMEOUT, "none") >>

\* what a write does take: nothing, one override, or a response override
\* followed by a crc_error; never a timeout together with a crc_error
WriteConsumes ==
  fiLast.op = "write"
    => \/ Len(fiLast.consumed) <= 1
       \/ /\ Len(fiLast.consumed) = 2
          /\ fiLast.consumed[1].type = RESPONSE_OVERRIDE
          /\ fiLast.consumed[2].type = CRC_ERROR

\* what a check of the kind of override o reports when it consumes o
Failure(op, o) ==
  CASE op = "shouldTimeout" -> TRUE
    [] op = "shouldCorruptCrc" -> TRUE
    [] op = "checkConnectionError" ->
         IF o.arg = "ble" THEN "BleError" ELSE "EofError"
    [] op = "getResponseOverride" -> o.arg

InjectOps ==
  { "injectTimeout", "injectCrcError", "injectConnectionError",
    "overrideNextResponse" }

\* C40: overrides leave the queue in injection order. An inject call appends
\* at the tail; a check of kind K removes the head and reports its failure
\* exactly when the head has kind K, and then pendingCount drops by one;
\* otherwise it reports no failure and the queue is unchanged.
C40_FifoConsume ==
  [][/\ (fiLast'.op \in InjectOps /\ fiPc' # fiPc)
          => /\ Len(overrideQueue') > Len(overrideQueue)
             /\ SubSeq(overrideQueue', 1, Len(overrideQueue)) = overrideQueue
     /\ \A op \in Checks :
          (fiLast'.op = op /\ fiPc' # fiPc)
            => IF overrideQueue # << >> /\ overrideQueue[1].type = CheckKind[op]
               THEN /\ overrideQueue' = Tail(overrideQueue)
                    /\ fiLast'.result = Failure(op, overrideQueue[1])
                    /\ fiLast'.result # NoFailure[op]
                    /\ pendingCount' = pendingCount - 1
               ELSE /\ overrideQueue' = overrideQueue
                    /\ fiLast'.result = NoFailure[op]]_vars

\* the test "overrides are consumed in order" after its third check:
\* shouldCorruptCrc() took the crc_error once the timeout in front of it was
\* gone, and the connection error is next
C40_Witness ==
  /\ fiLast.op = "shouldCorruptCrc"
  /\ fiLast.result = TRUE
  /\ fiLast.consumed = << Override(CRC_ERROR, "none") >>
  /\ overrideQueue = << Override(CONNECTION_ERROR, "ble") >>
  /\ pendingCount = 1

====
